---- MODULE Spec2Model ----
(***************************************************************************)
(* Model of the metrics pipeline of the application monitor:               *)
(*   - LoggingThread: the bounded ring buffer, its producers (push), its   *)
(*     consumer (run), setLoggers, the reference count and the             *)
(*     destructor's join request;                                          *)
(*   - FMApplicationMonitor: the flags, the logger table and the public    *)
(*     enable/disable/configuration calls.                                 *)
(* A LoggingThread object is an entry of lt (fields named after the        *)
(* members), the locals of its run() are the matching entry of run.        *)
(***************************************************************************)
EXTENDS Integers, Sequences, FiniteSets, TLC

\* ---- program constants ----
logQueueSize == 16
maxLoggers == 8

\* ---- bounds of the model ----
NumProducers == 2
NumSinks == 2
NumThreads == 1
MaxPush == 18
MaxListLen == 2
MaxSetLoggers == 1
\* Bounds of the specification of the application monitor (SpecApp).
NumWindows == 1
MaxMonitorId == 1
MaxAppPush == 1
MaxGenericId == 1
MaxJobs == 2
\* Bound of the specification of the generic event system (SpecGeneric).
MaxRegister == 3
\* Bounds of the specification of the monitor registry (SpecRegistry): the
\* windows beyond the capacity of the registry, and the monitors constructed
\* beyond it.
ExtraWindows == 1
ExtraMonitorIds == 2

Producers == 1..NumProducers
Sinks == 1..NumSinks
Threads == 1..NumThreads
Windows == 1..NumWindows
MonitorIds == 1..MaxMonitorId

\* An event: its type, the window or generic id it carries, the window state
\* of a Window event, and (history) the rank at which it took its slot.
MkEvent(type, id, info, rank) == [type |-> type, id |-> id, info |-> info, rank |-> rank]

NoEvent == MkEvent("None", 0, "", 0)
NoLogger == 0

\* Holders of LoggingThread::m_mutex other than the producers.
Unlocked == 0
RunThread == -1

\* LoggingThread::m_flags bits.
Waiting == "Waiting"
JoinRequested == "JoinRequested"

VARIABLES
    lt,        \* per LoggingThread object: life state, members, mutex holder,
               \* pending wake-ups of m_condition
    run,       \* per LoggingThread object: position and locals of run()
    push_pc,   \* per producer thread: position in push()
    hist,      \* history, per LoggingThread object: events stored, dequeued
               \* and fanned out so far, whether this iteration of run() went
               \* through the wait, logger list installed at the latest
               \* dequeue, loggers called for the latest dequeued event
    setCalls,  \* history: number of setLoggers calls so far
    sinkLog,   \* history: per sink, the events passed to log()
    am,        \* FMApplicationMonitorPrivate: members, timer, event filter
    wm,        \* per WindowMonitor object (by id): life state and members
    win,       \* per window: visibility and scheduled render jobs
    app,       \* application thread: position in the running handler
    noDebug,   \* the build defines QT_NO_DEBUG (DASSERT compiled out)
    freed,     \* loggers deleted so far
    fault,     \* "none", or how the process went wrong
    lastOp,    \* history: the latest public call
    result     \* history: value returned by the latest public call that
               \* returns one

appVars == << am, wm, win, app, noDebug, freed, fault, lastOp, result >>

vars == << lt, run, push_pc, hist, setCalls, sinkLog, am, wm, win, app,
           noDebug, freed, fault, lastOp, result >>

\* ---- helpers ----

\* The first count entries of a logger table, as a sequence.
TableSeq(table, count) == [k \in 1..count |-> table[k - 1]]

EmptyTable == [k \in 0..(maxLoggers - 1) |-> NoLogger]

\* Slots of the ring buffer of t that hold an event not yet dequeued.
LiveSlots(t) ==
    { (lt[t].m_queueIndex + k) % logQueueSize : k \in 0..(lt[t].m_queueSize - 1) }

\* Events carry the rank at which they took their slot (history).
TaggedEvent(tag) == MkEvent("Generic", 0, "", tag)

\* ---- LoggingThread::LoggingThread ----
\* The object once constructed: m_refCount(1), empty queue, no flags, run()
\* started.
NewLoggingThread ==
    [ state |-> "alive",
      m_queue |-> [s \in 0..(logQueueSize - 1) |-> NoEvent],
      m_queueIndex |-> 0,
      m_queueSize |-> 0,
      m_flags |-> {},
      m_loggers |-> EmptyTable,
      m_loggerCount |-> 0,
      m_refCount |-> 1,
      mutex |-> Unlocked,
      wakeups |-> 0 ]

NewRun ==
    [ pc |-> "top", event |-> NoEvent, loggers |-> EmptyTable,
      loggerCount |-> 0, i |-> 0 ]

NewHist ==
    [ pushed |-> 0, dequeued |-> 0, delivered |-> 0, woken |-> FALSE,
      dequeueLoggers |-> << >>, eventCalls |-> << >> ]

\* A LoggingThread object that does not exist yet.
NoLoggingThread == [NewLoggingThread EXCEPT !.state = "none", !.m_refCount = 0]

\* The thread that the producers of the thread-level specifications feed.
T1 == 1

\* ---- FMApplicationMonitorPrivate::FMApplicationMonitorPrivate ----
\* FMApplicationMonitorPrivate::m_flags bits, and the LoggingFilter bits that
\* share the word.
Overlay == "Overlay"
Logging == "Logging"
Started == "Started"
ClosingDown == "ClosingDown"
ProcessEvent == "ProcessEvent"
WindowEvent == "WindowEvent"
FrameEvent == "FrameEvent"
GenericEvent == "GenericEvent"
AllEvents == {ProcessEvent, WindowEvent, FrameEvent, GenericEvent}
FilterMask == AllEvents

\* Content of an array entry that was never written.
Indeterminate == -1

\* The null LoggingThread pointer.
NullThread == 0

\* m_loggers is zero-initialised in debug builds only. m_monitors holds the
\* registered monitors (m_monitorCount is its length), nextId is the static
\* id of startMonitoring(), genericId the static id of registerGenericEvent().
NewApplicationMonitor(release) ==
    [ m_flags |-> AllEvents,
      m_loggers |-> [k \in 0..(maxLoggers - 1) |->
                        IF release THEN Indeterminate ELSE NoLogger],
      m_loggerCount |-> 0,
      m_loggingThread |-> NullThread,
      m_monitors |-> << >>,
      nextId |-> 0,
      genericId |-> 0,
      m_updateInterval |-> 1000,
      timerActive |-> FALSE,
      filterInstalled |-> FALSE ]

\* WindowMonitor::m_flags bit next to the application monitor's bits.
GpuResourcesInitialized == "GpuResourcesInitialized"

\* ---- WindowMonitor::WindowMonitor ----
NewWindowMonitor(w, flags, t) ==
    [ state |-> "alive", window |-> w, m_flags |-> flags, m_loggingThread |-> t,
      overlayInitialized |-> FALSE ]

NoWindowMonitor ==
    [ state |-> "none", window |-> 0, m_flags |-> {}, m_loggingThread |-> NullThread,
      overlayInitialized |-> FALSE ]

\* The application monitor once constructed, in a debug or a release build;
\* no window is visible yet.
InitApp(builds) ==
    /\ noDebug \in builds
    /\ am = NewApplicationMonitor(noDebug)
    /\ wm = [m \in MonitorIds |-> NoWindowMonitor]
    /\ win = [w \in Windows |-> [visible |-> FALSE, jobs |-> << >>]]
    /\ app = [pc |-> "idle", thread |-> NullThread, ret |-> "idle"]
    /\ freed = {}
    /\ fault = "none"
    /\ lastOp = "none"
    /\ result = FALSE

Init ==
    /\ lt = [t \in Threads |-> IF t = T1 THEN NewLoggingThread ELSE NoLoggingThread]
    /\ run = [t \in Threads |-> NewRun]
    /\ hist = [t \in Threads |-> NewHist]
    /\ push_pc = [p \in Producers |-> "idle"]
    /\ setCalls = 0
    /\ sinkLog = [s \in Sinks |-> << >>]
    /\ InitApp({FALSE})

\* ---- QWaitCondition::wakeOne: wakes one waiter if there is one ----
WakeOne(waiting, wakeups) == IF waiting THEN 1 ELSE wakeups

\* Variant of PushWakes: push() never signals the consumer.
PushWakesNever(flags) == FALSE

\* push(): "if (m_flags & Waiting) m_condition.wakeOne()"
PushWakes(flags) == Waiting \in flags

\* Variant of PushFull: the full test is off by one.
PushFullOffByOne(size) == size > logQueueSize

\* push(): "while (m_queueSize == logQueueSize)"
PushFull(size) == size = logQueueSize

\* Variant of PushSlot: the slot after the first free one is written.
PushSlotOffByOne(index, size) == (index + size + 1) % logQueueSize

\* push(): slot written, "(m_queueIndex + m_queueSize++) % logQueueSize"
PushSlot(index, size) == (index + size) % logQueueSize

\* push(), from "Push event to the log queue" to the unlock: the object
\* after the event is copied into its slot and the consumer signalled.
PushStored(t, o, event) ==
    [o EXCEPT
        !.m_queue = [@ EXCEPT ![PushSlot(o.m_queueIndex, o.m_queueSize)] = event],
        !.m_queueSize = @ + 1,
        !.wakeups = IF PushWakes(o.m_flags)
                    THEN WakeOne(run[t].pc = "waiting", @) ELSE @,
        !.mutex = Unlocked]

\* ---- LoggingThread::push, by the producer threads ----
\* m_mutex.lock() at the head of push().
PushLock(p, limit) ==
    /\ push_pc[p] = "idle"
    /\ lt[T1].state = "alive"
    /\ hist[T1].pushed + Cardinality({q \in Producers : push_pc[q] # "idle"}) < limit
    /\ lt[T1].mutex = Unlocked
    /\ lt' = [lt EXCEPT ![T1].mutex = p]
    /\ push_pc' = [push_pc EXCEPT ![p] = "locked"]
    /\ UNCHANGED << appVars, run, hist, setCalls, sinkLog >>

\* Queue full: m_mutex.unlock() before QThread::yieldCurrentThread().
PushYield(p) ==
    /\ push_pc[p] = "locked"
    /\ lt[T1].mutex = p
    /\ PushFull(lt[T1].m_queueSize)
    /\ lt' = [lt EXCEPT ![T1].mutex = Unlocked]
    /\ push_pc' = [push_pc EXCEPT ![p] = "yield"]
    /\ UNCHANGED << appVars, run, hist, setCalls, sinkLog >>

\* m_mutex.lock() after the yield, back to the loop test.
PushRelock(p) ==
    /\ push_pc[p] = "yield"
    /\ lt[T1].mutex = Unlocked
    /\ lt' = [lt EXCEPT ![T1].mutex = p]
    /\ push_pc' = [push_pc EXCEPT ![p] = "locked"]
    /\ UNCHANGED << appVars, run, hist, setCalls, sinkLog >>

\* Space exists: copy the event, signal the parked consumer, unlock.
PushStore(p) ==
    /\ push_pc[p] = "locked"
    /\ lt[T1].mutex = p
    /\ ~PushFull(lt[T1].m_queueSize)
    /\ lt' = [lt EXCEPT ![T1] = PushStored(T1, @, TaggedEvent(hist[T1].pushed + 1))]
    /\ hist' = [hist EXCEPT ![T1].pushed = @ + 1]
    /\ push_pc' = [push_pc EXCEPT ![p] = "idle"]
    /\ UNCHANGED << appVars, run, setCalls, sinkLog >>

\* ---- LoggingThread::run ----
\* run(): "if (m_queueSize == 0)" at the top of the loop
RunEmpty(size) == size = 0

\* run(): BREAK_ON_JOIN_REQUEST
RunJoinRequested(flags) == JoinRequested \in flags

\* Variant of RunWakeBreaks: the emptiness of the queue is not re-checked.
RunWakeBreaksOnJoin(size, flags) == RunJoinRequested(flags)

\* Variant of RunWakeBreaks: no test at all after the wait.
RunWakeNeverBreaks(size, flags) == FALSE

\* run(): after the wait, "if (m_queueSize == 0) BREAK_ON_JOIN_REQUEST"
RunWakeBreaks(size, flags) == size = 0 /\ RunJoinRequested(flags)

\* run(): "m_queueIndex = (m_queueIndex + 1) % logQueueSize"
RunNextIndex(index) == (index + 1) % logQueueSize

\* Variant of RunLogTarget: the fan-out reads the shared table, not the copy.
RunLogTargetShared(snapshot, table, i) == table[i]

\* run(): the logger called by iteration i of the fan-out loop
RunLogTarget(snapshot, table, i) == snapshot[i]

\* m_mutex.lock() at the top of the loop.
RunLock(t) ==
    /\ lt[t].state \in {"alive", "joining"}
    /\ run[t].pc = "top"
    /\ lt[t].mutex = Unlocked
    /\ lt' = [lt EXCEPT ![t].mutex = RunThread]
    /\ run' = [run EXCEPT ![t].pc = "check"]
    /\ UNCHANGED << appVars, push_pc, hist, setCalls, sinkLog >>

\* Queue empty and join requested: unlock and leave the loop.
RunExit(t) ==
    /\ run[t].pc = "check"
    /\ RunEmpty(lt[t].m_queueSize)
    /\ RunJoinRequested(lt[t].m_flags)
    /\ lt' = [lt EXCEPT ![t].mutex = Unlocked]
    /\ run' = [run EXCEPT ![t].pc = "exited"]
    /\ UNCHANGED << appVars, push_pc, hist, setCalls, sinkLog >>

\* Queue empty, no join request: set Waiting and wait on the condition
\* (the wait releases the mutex).
RunWait(t) ==
    /\ run[t].pc = "check"
    /\ RunEmpty(lt[t].m_queueSize)
    /\ ~RunJoinRequested(lt[t].m_flags)
    /\ lt' = [lt EXCEPT ![t].m_flags = @ \cup {Waiting}, ![t].mutex = Unlocked]
    /\ run' = [run EXCEPT ![t].pc = "waiting"]
    /\ UNCHANGED << appVars, push_pc, hist, setCalls, sinkLog >>

\* Queue not empty at the top of the loop: go on to the dequeue.
RunProceed(t) ==
    /\ run[t].pc = "check"
    /\ ~RunEmpty(lt[t].m_queueSize)
    /\ run' = [run EXCEPT ![t].pc = "dequeue"]
    /\ UNCHANGED << appVars, lt, push_pc, hist, setCalls, sinkLog >>

\* The wait returns: the consumer was woken and has re-acquired the mutex.
RunWake(t) ==
    /\ run[t].pc = "waiting"
    /\ lt[t].wakeups > 0
    /\ lt[t].mutex = Unlocked
    /\ lt' = [lt EXCEPT ![t].wakeups = @ - 1, ![t].mutex = RunThread]
    /\ run' = [run EXCEPT ![t].pc = "woken"]
    /\ UNCHANGED << appVars, push_pc, hist, setCalls, sinkLog >>

\* After the wait: queue empty and join requested, unlock and leave the loop.
RunWakeExit(t) ==
    /\ run[t].pc = "woken"
    /\ RunWakeBreaks(lt[t].m_queueSize, lt[t].m_flags)
    /\ lt' = [lt EXCEPT ![t].mutex = Unlocked]
    /\ run' = [run EXCEPT ![t].pc = "exited"]
    /\ UNCHANGED << appVars, push_pc, hist, setCalls, sinkLog >>

\* After the wait, otherwise: clear Waiting and go on to the dequeue.
RunWakeProceed(t) ==
    /\ run[t].pc = "woken"
    /\ ~RunWakeBreaks(lt[t].m_queueSize, lt[t].m_flags)
    /\ lt' = [lt EXCEPT ![t].m_flags = @ \ {Waiting}]
    /\ run' = [run EXCEPT ![t].pc = "dequeue"]
    /\ hist' = [hist EXCEPT ![t].woken = TRUE]
    /\ UNCHANGED << appVars, push_pc, setCalls, sinkLog >>

\* Unqueue the oldest event, snapshot the logger table, unlock.
RunDequeue(t) ==
    /\ run[t].pc = "dequeue"
    /\ lt[t].mutex = RunThread
    /\ run' = [run EXCEPT
          ![t].event = lt[t].m_queue[lt[t].m_queueIndex],
          ![t].loggerCount = lt[t].m_loggerCount,
          ![t].loggers = [k \in 0..(maxLoggers - 1) |->
                            IF k < lt[t].m_loggerCount THEN lt[t].m_loggers[k]
                            ELSE @[k]],
          ![t].i = 0,
          ![t].pc = "log"]
    /\ lt' = [lt EXCEPT ![t].m_queueIndex = RunNextIndex(@),
                        ![t].m_queueSize = @ - 1,
                        ![t].mutex = Unlocked]
    /\ hist' = [hist EXCEPT
          ![t].dequeueLoggers = TableSeq(lt[t].m_loggers, lt[t].m_loggerCount),
          ![t].eventCalls = << >>,
          ![t].dequeued = @ + 1,
          ![t].woken = FALSE]
    /\ UNCHANGED << appVars, push_pc, setCalls, sinkLog >>

\* One iteration of the fan-out loop: loggers[i]->log(event).
RunLog(t) ==
    /\ run[t].pc = "log"
    /\ run[t].i < run[t].loggerCount
    /\ LET l == RunLogTarget(run[t].loggers, lt[t].m_loggers, run[t].i) IN
        /\ sinkLog' = IF l \in Sinks
                      THEN [sinkLog EXCEPT ![l] = Append(@, run[t].event)]
                      ELSE sinkLog
        /\ hist' = [hist EXCEPT ![t].eventCalls = Append(@, l)]
    /\ run' = [run EXCEPT ![t].i = @ + 1]
    /\ UNCHANGED << appVars, lt, push_pc, setCalls >>

\* The fan-out loop is over: back to the top of the loop.
RunLogDone(t) ==
    /\ run[t].pc = "log"
    /\ run[t].i >= run[t].loggerCount
    /\ run' = [run EXCEPT ![t].pc = "top"]
    /\ hist' = [hist EXCEPT ![t].delivered = @ + 1]
    /\ UNCHANGED << appVars, lt, push_pc, setCalls, sinkLog >>

\* ---- LoggingThread::setLoggers ----
LoggerLists == UNION { [1..n -> Sinks] : n \in 0..MaxListLen }

\* setLoggers(): the object after "memcpy(m_loggers, loggers, count)" and
\* "m_loggerCount = count"; table holds the caller's array.
SetLoggersDone(o, table, count) ==
    [o EXCEPT !.m_loggers = [k \in 0..(maxLoggers - 1) |->
                                IF k < count THEN table[k] ELSE @[k]],
              !.m_loggerCount = count]

\* A caller's array holding the given list.
ListTable(list) ==
    [k \in 0..(maxLoggers - 1) |-> IF k < Len(list) THEN list[k + 1] ELSE NoLogger]

SetLoggers(list, limit) ==
    /\ lt[T1].state = "alive"
    /\ setCalls < limit
    /\ lt[T1].mutex = Unlocked
    /\ lt' = [lt EXCEPT ![T1] = SetLoggersDone(@, ListTable(list), Len(list))]
    /\ setCalls' = setCalls + 1
    /\ UNCHANGED << appVars, run, push_pc, hist, sinkLog >>

\* ---- LoggingThread::~LoggingThread ----
\* ~LoggingThread(): "if (m_flags & Waiting) m_condition.wakeOne()"
DtorWakes(flags) == Waiting \in flags

\* ~LoggingThread(), the locked section: the object after the join request
\* is set and the consumer signalled.
DtorRequested(t, o) ==
    [o EXCEPT !.m_flags = @ \cup {JoinRequested},
              !.wakeups = IF DtorWakes(o.m_flags)
                          THEN WakeOne(run[t].pc = "waiting", @) ELSE @,
              !.state = "joining"]

\* The destructor of the thread fed by the producers, run once the last
\* holder has released it: no push is in progress and none follows.
DtorRequest ==
    /\ lt[T1].state = "alive"
    /\ \A p \in Producers : push_pc[p] = "idle"
    /\ lt[T1].mutex = Unlocked
    /\ lt' = [lt EXCEPT ![T1] = DtorRequested(T1, @)]
    /\ UNCHANGED << appVars, run, push_pc, hist, setCalls, sinkLog >>

\* wait() returns once run() has returned; the queue is freed.
DtorJoin(t) ==
    /\ lt[t].state = "joining"
    /\ run[t].pc = "exited"
    /\ lt' = [lt EXCEPT ![t].state = "freed"]
    /\ UNCHANGED << appVars, run, push_pc, hist, setCalls, sinkLog >>

\* The steps of run() of every thread object.
RunSteps ==
    \/ \E t \in Threads : RunLock(t)
    \/ \E t \in Threads : RunExit(t)
    \/ \E t \in Threads : RunWait(t)
    \/ \E t \in Threads : RunProceed(t)
    \/ \E t \in Threads : RunWake(t)
    \/ \E t \in Threads : RunWakeExit(t)
    \/ \E t \in Threads : RunWakeProceed(t)
    \/ \E t \in Threads : RunDequeue(t)
    \/ \E t \in Threads : RunLog(t)
    \/ \E t \in Threads : RunLogDone(t)

\* The steps of push() after its first lock, and of the destructor.
ProducerSteps ==
    \/ \E p \in Producers : PushYield(p)
    \/ \E p \in Producers : PushRelock(p)
    \/ \E p \in Producers : PushStore(p)
    \/ DtorRequest
    \/ \E t \in Threads : DtorJoin(t)

Next ==
    \/ \E p \in Producers : PushLock(p, MaxPush)
    \/ \E list \in LoggerLists : SetLoggers(list, MaxSetLoggers)
    \/ ProducerSteps
    \/ RunSteps

Spec == Init /\ [][Next]_vars

\* The logging thread as start() leaves it: constructed, then given the
\* application monitor's logger table by setLoggers.
InitStarted ==
    /\ lt = [t \in Threads |->
                IF t = T1
                THEN SetLoggersDone(NewLoggingThread,
                                    ListTable([k \in 1..NumSinks |-> k]), NumSinks)
                ELSE NoLoggingThread]
    /\ run = [t \in Threads |-> NewRun]
    /\ hist = [t \in Threads |-> NewHist]
    /\ push_pc = [p \in Producers |-> "idle"]
    /\ setCalls = 0
    /\ sinkLog = [s \in Sinks |-> << >>]
    /\ InitApp({FALSE})

NextStarted ==
    \/ \E p \in Producers : PushLock(p, MaxPush)
    \/ ProducerSteps
    \/ RunSteps

\* The started logging thread and its producers.
SpecQueue == InitStarted /\ [][NextStarted]_vars

\* The started logging thread, its producers, and setLoggers.
SpecLoggers == InitStarted /\ [][Next]_vars

\* ---- FMApplicationMonitor: the logger table ----

\* The installed loggers, as loggers() lists them.
InstalledLoggers(a) == TableSeq(a.m_loggers, a.m_loggerCount)

\* A handler can be entered: the application thread is in the event loop and
\* the process has not gone wrong.
AppIdle == app.pc = "idle" /\ fault = "none"

\* Variant of InstallAccepts: the capacity test is off by one.
InstallAcceptsOneMore(count, logger) == count <= maxLoggers /\ logger # NoLogger

\* installLogger(): "if (d->m_loggerCount < maxLoggers && logger)"
InstallAccepts(count, logger) == count < maxLoggers /\ logger # NoLogger

\* "if (d->m_flags & Started) d->m_loggingThread->setLoggers(...)": the
\* thread objects after the call; o is the application monitor after the
\* change of its table.
TableHandedOver(o) ==
    IF Started \in o.m_flags /\ o.m_loggingThread # NullThread
    THEN [lt EXCEPT ![o.m_loggingThread] =
             SetLoggersDone(@, o.m_loggers, o.m_loggerCount)]
    ELSE lt

\* setLoggers() can take the mutex of the logging thread.
TableHandOverReady(o) ==
    Started \in o.m_flags /\ o.m_loggingThread # NullThread
        => lt[o.m_loggingThread].mutex = Unlocked

\* The entry m_loggers[i] as the code reads it; index maxLoggers is past the
\* end of the array and yields whatever lies there.
RemoveRead(table, i, beyond) == IF i < maxLoggers THEN table[i] ELSE beyond

\* ---- FMApplicationMonitor::installLogger ----
InstallLogger(logger) ==
    /\ AppIdle
    /\ IF ~InstallAccepts(am.m_loggerCount, logger)
       THEN /\ result' = FALSE
            /\ UNCHANGED << am, lt, fault >>
       ELSE IF ~noDebug
               /\ RemoveRead(am.m_loggers, am.m_loggerCount, Indeterminate) # NoLogger
       THEN \* DASSERT(d->m_loggers[d->m_loggerCount] == nullptr) fails.
            /\ fault' = "assert"
            /\ UNCHANGED << am, lt, result >>
       ELSE LET o == [am EXCEPT !.m_loggers[am.m_loggerCount] = logger,
                                !.m_loggerCount = @ + 1] IN
            /\ TableHandOverReady(o)
            /\ am' = o
            /\ lt' = TableHandedOver(o)
            /\ result' = TRUE
            /\ UNCHANGED fault
    /\ lastOp' = "installLogger"
    /\ UNCHANGED << run, push_pc, hist, setCalls, sinkLog, wm, win, app,
                    noDebug, freed >>

\* ---- FMApplicationMonitor::removeLogger ----
\* removeLogger(): the indices visited by
\* "for (int i = d->m_loggerCount; i > 0; --i)"
RemoveScanned(count) == 1..count

\* The index at which the loop finds the logger, -1 if it does not.
RemoveFound(table, count, logger, beyond) ==
    LET hits == { i \in RemoveScanned(count) : RemoveRead(table, i, beyond) = logger }
    IN IF hits = {} THEN -1 ELSE CHOOSE i \in hits : \A j \in hits : j <= i

\* The table after the entry found at i is taken out: the count is
\* decremented, the last entry moved into the hole if there is one behind
\* it, and (debug builds) the vacated entry reset.
RemoveTaken(a, i, release) ==
    LET n == a.m_loggerCount - 1
        moved == IF i < n THEN [a.m_loggers EXCEPT ![i] = a.m_loggers[n]]
                 ELSE a.m_loggers
    IN [a EXCEPT !.m_loggerCount = n,
                 !.m_loggers = IF release THEN moved
                               ELSE [moved EXCEPT ![n] = NoLogger]]

RemoveLogger(logger, free) ==
    /\ AppIdle
    /\ \E beyond \in {logger, Indeterminate} :
        LET i == RemoveFound(am.m_loggers, am.m_loggerCount, logger, beyond) IN
        IF logger = NoLogger \/ i = -1
        THEN /\ result' = FALSE
             /\ UNCHANGED << am, lt, freed >>
        ELSE LET o == RemoveTaken(am, i, noDebug) IN
             /\ TableHandOverReady(o)
             /\ am' = o
             /\ lt' = TableHandedOver(o)
             /\ freed' = IF free THEN freed \cup {logger} ELSE freed
             /\ result' = TRUE
    /\ lastOp' = "removeLogger"
    /\ UNCHANGED << run, push_pc, hist, setCalls, sinkLog, wm, win, app,
                    noDebug, fault >>

\* ---- FMApplicationMonitor::clearLoggers ----
\* "delete d->m_loggers[i]" for every installed entry deletes some logger a
\* second time.
ClearDeletesTwice(a) ==
    \E j \in 0..(a.m_loggerCount - 1) :
        \/ a.m_loggers[j] \in freed
        \/ \E k \in 0..(j - 1) : a.m_loggers[k] = a.m_loggers[j]

ClearLoggers(free) ==
    /\ AppIdle
    /\ IF am.m_loggerCount > 0
       THEN /\ freed' = IF free
                        THEN freed \cup { am.m_loggers[k] : k \in 0..(am.m_loggerCount - 1) }
                        ELSE freed
            /\ fault' = IF free /\ ClearDeletesTwice(am) THEN "doubleDelete" ELSE fault
            /\ am' = [am EXCEPT !.m_loggerCount = 0]
       ELSE UNCHANGED << am, freed, fault >>
    /\ lastOp' = "clearLoggers"
    /\ UNCHANGED << lt, run, push_pc, hist, setCalls, sinkLog, wm, win, app,
                    noDebug, result >>

\* The loggers a caller can hand over: the live ones and the null pointer.
LoggerArgs == (Sinks \ freed) \cup {NoLogger}

\* ---- the handlers of the application monitor and of the window
\* monitors ----
\* A handler is computed on a copy of the state (a record with one field per
\* variable it can change), statement after statement; blocked is set when
\* the handler has to wait (a full queue, a held mutex) or leaves the bounds
\* of the model, join names the logging thread whose destructor it is in.
Current ==
    [ am |-> am, lt |-> lt, run |-> run, hist |-> hist, wm |-> wm, win |-> win,
      fault |-> fault, blocked |-> FALSE, join |-> NullThread ]

Fail(s, how) == IF s.fault = "none" THEN [s EXCEPT !.fault = how] ELSE s

\* DASSERT(cond): aborts debug builds when cond is false.
DAssert(s, cond) == IF ~noDebug /\ ~cond THEN Fail(s, "assert") ELSE s

\* loggingThread->push(&event) by a handler: waits for the mutex and for a
\* free slot, then stores. A null or destroyed thread object is a fault.
PushEvent(s, t, type, id, info) ==
    IF s.fault # "none" \/ s.blocked THEN s
    ELSE IF t = NullThread THEN Fail(s, "nullThread")
    ELSE IF s.lt[t].state # "alive" THEN Fail(s, "destroyedThread")
    ELSE IF \/ s.lt[t].mutex # Unlocked
            \/ PushFull(s.lt[t].m_queueSize)
            \/ s.hist[t].pushed >= MaxAppPush
    THEN [s EXCEPT !.blocked = TRUE]
    ELSE [s EXCEPT
            !.lt[t] = PushStored(t, @, MkEvent(type, id, info, s.hist[t].pushed + 1)),
            !.hist[t].pushed = @ + 1]

\* ---- LoggingThread::ref ----
Ref(s, t) ==
    IF s.fault # "none" THEN s
    ELSE IF t = NullThread THEN Fail(s, "nullThread")
    ELSE [s EXCEPT !.lt[t].m_refCount = @ + 1]

\* ---- LoggingThread::deref ----
\* Variant of DerefLast: the object goes while one holder is left.
DerefLastEarly(count) == count - 1 <= 1

\* deref(): "if (m_refCount.deref() == 0)", true when the decremented count
\* is zero.
DerefLast(count) == count - 1 = 0

\* The last release deletes the object at once when called on the thread the
\* object lives on (the application thread), and posts a deferred deletion
\* otherwise.
Deref(s, t, onAppThread) ==
    IF s.fault # "none" \/ s.blocked THEN s
    ELSE IF t = NullThread THEN Fail(s, "nullThread")
    ELSE IF ~DerefLast(s.lt[t].m_refCount)
    THEN [s EXCEPT !.lt[t].m_refCount = @ - 1]
    ELSE IF ~onAppThread
    THEN [s EXCEPT !.lt[t].m_refCount = 0, !.lt[t].state = "deleteLater"]
    ELSE IF s.lt[t].mutex # Unlocked
    THEN [s EXCEPT !.blocked = TRUE]
    ELSE [s EXCEPT !.lt[t] = DtorRequested(t, [@ EXCEPT !.m_refCount = 0]),
                   !.join = t]

\* ---- FMApplicationMonitorPrivate::startMonitoring ----
maxMonitors == 16

\* Variant of StartAccepts: the capacity test is off by one.
StartAcceptsOneMore(count) == count <= maxMonitors

\* startMonitoring(): "if (m_monitorCount < maxMonitors)"
StartAccepts(count) == count < maxMonitors

\* The monitor objects of the model are those of wm; a handler that needs
\* one more leaves the bounds of the model.
StartMonitoring(s, w) ==
    IF s.fault # "none" \/ s.blocked THEN s
    ELSE IF ~StartAccepts(Len(s.am.m_monitors)) THEN s
    ELSE IF s.am.nextId >= Len(s.wm) THEN [s EXCEPT !.blocked = TRUE]
    ELSE LET id == s.am.nextId + 1
             t == s.am.m_loggingThread
             flags == s.am.m_flags
             s1 == Ref(DAssert(s, t # NullThread), t)
             s2 == IF s1.fault # "none" THEN s1
                   ELSE [s1 EXCEPT !.am.nextId = id,
                                   !.wm[id] = NewWindowMonitor(w, flags, t)]
             \* WindowMonitor::WindowMonitor logs the window as Shown.
             s3 == IF Logging \in flags /\ WindowEvent \in flags
                   THEN PushEvent(s2, t, "Window", id, "Shown")
                   ELSE s2
         IN IF s3.fault # "none" \/ s3.blocked THEN s3
            ELSE [s3 EXCEPT !.am.m_monitors = Append(@, id)]

\* start(): startMonitoring() for the visible windows, in the order of
\* QGuiApplication::allWindows().
RECURSIVE StartVisible(_, _)
StartVisible(s, w) ==
    IF w > Len(s.win) THEN s
    ELSE StartVisible(IF s.win[w].visible THEN StartMonitoring(s, w) ELSE s, w + 1)

\* ---- FMApplicationMonitorPrivate::processTimeout ----
ProcessTimeoutDone(s) ==
    LET s1 == DAssert(DAssert(s, Started \in s.am.m_flags),
                      s.am.m_loggingThread # NullThread)
        processLogging == Logging \in s.am.m_flags /\ ProcessEvent \in s.am.m_flags
    IN IF processLogging
       THEN PushEvent(s1, s.am.m_loggingThread, "Process", 0, "")
       ELSE s1

\* The LoggingThread objects of the model not constructed yet; each is
\* constructed once.
FreeThreads(s) == { t \in Threads : s.lt[t].state = "none" }

\* ---- FMApplicationMonitorPrivate::start ----
StartDone(s) ==
    IF s.fault # "none" \/ s.blocked THEN s
    ELSE IF FreeThreads(s) = {} THEN [s EXCEPT !.blocked = TRUE]
    ELSE LET t == CHOOSE u \in FreeThreads(s) : \A v \in FreeThreads(s) : u <= v
             s1 == DAssert(DAssert(s, Started \notin s.am.m_flags),
                           s.am.m_loggingThread = NullThread)
             s2 == IF s1.fault # "none" THEN s1
                   ELSE [s1 EXCEPT
                           !.lt[t] = SetLoggersDone(NewLoggingThread, s.am.m_loggers,
                                                    s.am.m_loggerCount),
                           !.run[t] = NewRun,
                           !.hist[t] = NewHist,
                           !.am.m_loggingThread = t]
             s3 == StartVisible(s2, 1)
             s4 == IF s3.fault # "none" THEN s3
                   ELSE [s3 EXCEPT !.am.filterInstalled = TRUE,
                                   !.am.m_flags = @ \cup {Started}]
             s5 == ProcessTimeoutDone(s4)
         IN IF s5.fault # "none" THEN s5
            ELSE [s5 EXCEPT !.am.timerActive = (s5.am.m_updateInterval >= 0)]

\* ---- FMApplicationMonitorPrivate::stopMonitoring ----
\* Schedules a WindowMonitorDeleter on the window of the monitor.
StopMonitoring(s, m) ==
    IF Len(s.win[s.wm[m].window].jobs) >= MaxJobs THEN [s EXCEPT !.blocked = TRUE]
    ELSE
    [s EXCEPT !.win[s.wm[m].window].jobs = Append(@, [kind |-> "deleter", monitor |-> m, flags |-> {}])]

RECURSIVE StopAll(_, _)
StopAll(s, i) ==
    IF i > Len(s.am.m_monitors) THEN s
    ELSE StopAll(StopMonitoring(s, s.am.m_monitors[i]), i + 1)

\* ---- FMApplicationMonitorPrivate::stop, up to the wait for the monitors ----
StopBegun(s) ==
    IF s.fault # "none" \/ s.blocked THEN s
    ELSE LET s1 == DAssert(s, Started \in s.am.m_flags)
             s2 == IF s1.fault # "none" THEN s1
                   ELSE [s1 EXCEPT
                           !.am.timerActive =
                               IF s.am.m_updateInterval >= 0 THEN FALSE ELSE @,
                           !.am.filterInstalled = FALSE]
             s3 == IF s2.fault # "none" THEN s2 ELSE StopAll(s2, 1)
             s4 == Deref(DAssert(s3, s.am.m_loggingThread # NullThread),
                         s.am.m_loggingThread, TRUE)
         IN IF s4.fault # "none" \/ s4.blocked THEN s4
            ELSE [s4 EXCEPT !.am.m_loggingThread = NullThread]

\* ---- FMApplicationMonitorPrivate::setMonitoringFlags ----
RECURSIVE FlagsScheduled(_, _, _)
FlagsScheduled(s, flags, i) ==
    IF i > Len(s.am.m_monitors) THEN s
    ELSE LET m == s.am.m_monitors[i] IN
         IF Len(s.win[s.wm[m].window].jobs) >= MaxJobs THEN [s EXCEPT !.blocked = TRUE]
         ELSE
         FlagsScheduled(
             [s EXCEPT !.win[s.wm[m].window].jobs =
                          Append(@, [kind |-> "flags", monitor |-> m, flags |-> flags])],
             flags, i + 1)

SetMonitoringFlags(s) ==
    IF s.fault # "none" \/ s.blocked THEN s ELSE FlagsScheduled(s, s.am.m_flags, 1)

\* The state a handler leaves; the application thread goes on to the join of
\* the logging thread it is destroying, to the wait of stop() for the
\* monitors, or back to the event loop.
Commit(s, stopping) ==
    /\ ~s.blocked
    /\ am' = s.am
    /\ lt' = s.lt
    /\ run' = s.run
    /\ hist' = s.hist
    /\ wm' = s.wm
    /\ win' = s.win
    /\ fault' = s.fault
    /\ app' = IF s.fault # "none" THEN app
              ELSE IF s.join # NullThread
              THEN [pc |-> "join", thread |-> s.join,
                    ret |-> IF stopping THEN "stop_wait" ELSE app.pc]
              ELSE [app EXCEPT !.pc = IF stopping THEN "stop_wait" ELSE @]

\* Variant of OverlayOffStops: turning the overlay off always stops.
OverlayOffAlwaysStops(flags) == TRUE

\* setOverlay(false): "if (!(d->m_flags & Logging)) d->stop()"
OverlayOffStops(flags) == Logging \notin flags

\* setLogging(false): "if (!(d->m_flags & Overlay)) d->stop()"
LoggingOffStops(flags) == Overlay \notin flags

\* setOverlay(true), setLogging(true):
\* "if (!(d->m_flags & (Started | ClosingDown))) d->start()"
EnableStarts(flags) == Started \notin flags /\ ClosingDown \notin flags

\* ---- FMApplicationMonitor::setOverlay, setLogging ----
\* The two calls differ by the flag they set and the flag they test: the
\* state after the body of "if (!!(d->m_flags & flag) != on)".
FlagToggled(flag, on, offStops) ==
    IF on
    THEN LET s == [Current EXCEPT !.am.m_flags = @ \cup {flag}] IN
         IF EnableStarts(s.am.m_flags) THEN StartDone(s) ELSE SetMonitoringFlags(s)
    ELSE LET s == [Current EXCEPT !.am.m_flags = @ \ {flag}] IN
         IF offStops THEN StopBegun(s) ELSE SetMonitoringFlags(s)

SetOverlay(on) ==
    /\ AppIdle
    /\ IF (Overlay \in am.m_flags) # on
       THEN LET stops == OverlayOffStops(am.m_flags \ {Overlay}) IN
            Commit(FlagToggled(Overlay, on, stops), ~on /\ stops)
       ELSE Commit(Current, FALSE)
    /\ UNCHANGED << push_pc, setCalls, sinkLog, noDebug, freed, lastOp, result >>

SetLogging(on) ==
    /\ AppIdle
    /\ IF (Logging \in am.m_flags) # on
       THEN LET stops == LoggingOffStops(am.m_flags \ {Logging}) IN
            Commit(FlagToggled(Logging, on, stops), ~on /\ stops)
       ELSE Commit(Current, FALSE)
    /\ UNCHANGED << push_pc, setCalls, sinkLog, noDebug, freed, lastOp, result >>

\* ---- FMApplicationMonitor::setUpdateInterval ----
\* Variant of IntervalStartsTimer: the Started flag is not looked at.
IntervalStartsTimerUnstarted(flags, old) == old < 0

\* "if ((d->m_flags & Started) && (d->m_updateInterval[Process] < 0))
\* d->m_processTimer.start()"
IntervalStartsTimer(flags, old) == Started \in flags /\ old < 0

\* "else if ((d->m_flags & Started) && (d->m_updateInterval[Process] >= 0))
\* d->m_processTimer.stop()"
IntervalStopsTimer(flags, old) == Started \in flags /\ old >= 0

\* The application monitor after setUpdateInterval(type, interval); a type
\* other than Process is ignored, and so is the interval already set.
UpdateIntervalSet(a, type, interval) ==
    IF type = "Process" /\ interval # a.m_updateInterval
    THEN [a EXCEPT
            !.timerActive =
                IF interval >= 0
                THEN (IF IntervalStartsTimer(a.m_flags, a.m_updateInterval) THEN TRUE ELSE @)
                ELSE (IF IntervalStopsTimer(a.m_flags, a.m_updateInterval) THEN FALSE ELSE @),
            !.m_updateInterval = interval]
    ELSE a

SetUpdateInterval(type, interval) ==
    /\ AppIdle
    /\ am' = UpdateIntervalSet(am, type, interval)
    /\ lastOp' = "setUpdateInterval"
    /\ UNCHANGED << lt, run, push_pc, hist, setCalls, sinkLog, wm, win, app,
                    noDebug, freed, fault, result >>

\* ---- FMApplicationMonitor::closeDown ----
CloseDown ==
    /\ AppIdle
    /\ LET s == [Current EXCEPT !.am.m_flags = @ \cup {ClosingDown}] IN
       IF Started \in am.m_flags
       THEN Commit(StopBegun(s), TRUE)
       ELSE Commit(s, FALSE)
    /\ UNCHANGED << push_pc, setCalls, sinkLog, noDebug, freed, lastOp, result >>

\* ~LoggingThread, "wait()": the application thread resumes once run() has
\* returned; the object is freed, its content and its history are dropped.
AppJoin ==
    /\ fault = "none"
    /\ app.pc = "join"
    /\ run[app.thread].pc = "exited"
    /\ lt' = [lt EXCEPT ![app.thread] = [NoLoggingThread EXCEPT !.state = "freed"]]
    /\ run' = [run EXCEPT ![app.thread] = [NewRun EXCEPT !.pc = "exited"]]
    /\ hist' = [hist EXCEPT ![app.thread] = NewHist]
    /\ app' = [pc |-> app.ret, thread |-> NullThread, ret |-> "idle"]
    /\ UNCHANGED << push_pc, setCalls, sinkLog, am, wm, win,
                    noDebug, freed, fault, lastOp, result >>

\* stop(), "while (m_monitorCount > 0)" is over: "m_flags &= ~Started".
StopFinish ==
    /\ fault = "none"
    /\ app.pc = "stop_wait"
    /\ am.m_monitors = << >>
    /\ am' = [am EXCEPT !.m_flags = @ \ {Started}]
    /\ app' = [app EXCEPT !.pc = "idle"]
    /\ UNCHANGED << lt, run, push_pc, hist, setCalls, sinkLog, wm, win,
                    noDebug, freed, fault, lastOp, result >>

\* The event loop of the application thread delivers the deferred deletion
\* of a logging thread released by a rendering thread.
AppDeferredDelete(t) ==
    /\ fault = "none"
    /\ app.pc \in {"idle", "stop_wait"}
    /\ lt[t].state = "deleteLater"
    /\ lt[t].mutex = Unlocked
    /\ lt' = [lt EXCEPT ![t] = DtorRequested(t, @)]
    /\ app' = [pc |-> "join", thread |-> t, ret |-> app.pc]
    /\ UNCHANGED << run, push_pc, hist, setCalls, sinkLog, am, wm, win,
                    noDebug, freed, fault, lastOp, result >>

\* ---- FMApplicationMonitor::setLoggingFilter ----
\* The filters the callers of the model pass.
FilterChoices == { AllEvents, AllEvents \ {GenericEvent} }

SetLoggingFilter(filter) ==
    /\ AppIdle
    /\ LET maskedFilter == filter \cap FilterMask IN
       IF maskedFilter # am.m_flags \cap FilterMask
       THEN LET s == [Current EXCEPT !.am.m_flags = (@ \ FilterMask) \cup maskedFilter] IN
            IF Started \in am.m_flags
            THEN Commit(SetMonitoringFlags(s), FALSE)
            ELSE Commit(s, FALSE)
       ELSE Commit(Current, FALSE)
    /\ UNCHANGED << push_pc, setCalls, sinkLog, noDebug, freed, lastOp, result >>

\* ---- FMApplicationMonitor::logGenericEvent ----
\* "if ((d->m_flags & Logging) && (d->m_flags & GenericEvent))"
GenericLogged(flags) == Logging \in flags /\ GenericEvent \in flags

GenericIds == 0..MaxGenericId

LogGenericEvent(id) ==
    /\ AppIdle
    /\ IF GenericLogged(am.m_flags)
       THEN LET t == am.m_loggingThread
                s == PushEvent(DAssert(Current, t # NullThread), t, "Generic", id, "")
            IN /\ Commit(s, FALSE)
               /\ result' = IF s.fault = "none" THEN TRUE ELSE result
       ELSE /\ Commit(Current, FALSE)
            /\ result' = FALSE
    /\ UNCHANGED << push_pc, setCalls, sinkLog, noDebug, freed, lastOp >>

\* ---- FMApplicationMonitor::registerGenericEvent ----
\* "static quint32 id = 0; return ++id;": the counter after the call. The
\* counter is 32 bits wide; the calls of the model stay far below its wrap.
RegisterNext(id) == id + 1

\* Variant of RegisterReturned: the id is returned before the increment.
RegisterReturnedOld(id) == id

\* The value returned: that of the counter after the increment.
RegisterReturned(id) == RegisterNext(id)

RegisterGenericEvent ==
    /\ AppIdle
    /\ am.genericId < MaxRegister
    /\ am' = [am EXCEPT !.genericId = RegisterNext(@)]
    /\ result' = RegisterReturned(am.genericId)
    /\ lastOp' = "registerGenericEvent"
    /\ UNCHANGED << lt, run, push_pc, hist, setCalls, sinkLog, wm, win, app,
                    noDebug, freed, fault >>

\* ---- FMApplicationMonitor::processTimeout, on a tick of m_processTimer ----
ProcessTimeout ==
    /\ fault = "none"
    /\ app.pc \in {"idle", "stop_wait"}
    /\ am.timerActive
    /\ Commit(ProcessTimeoutDone(Current), FALSE)
    /\ UNCHANGED << push_pc, setCalls, sinkLog, noDebug, freed, lastOp, result >>

\* ---- FMApplicationMonitor::eventFilter ----
\* A window becomes visible; its Show event goes through the event filter
\* when start() has installed it.
ShowWindow(w) ==
    /\ AppIdle
    /\ ~win[w].visible
    /\ LET s == [Current EXCEPT !.win[w].visible = TRUE] IN
       IF am.filterInstalled
       THEN Commit(StartMonitoring(s, w), FALSE)
       ELSE Commit(s, FALSE)
    /\ UNCHANGED << push_pc, setCalls, sinkLog, noDebug, freed, lastOp, result >>

\* A window is hidden; the application monitor does not handle the event.
HideWindow(w) ==
    /\ AppIdle
    /\ win[w].visible
    /\ win' = [win EXCEPT ![w].visible = FALSE]
    /\ UNCHANGED << lt, run, push_pc, hist, setCalls, sinkLog, am, wm, app,
                    noDebug, freed, fault, lastOp, result >>

\* ---- WindowMonitor::~WindowMonitor, on the rendering thread ----
MonitorDeleted(s, m) ==
    IF s.fault # "none" \/ s.blocked THEN s
    ELSE LET f == s.wm[m].m_flags
             t == s.wm[m].m_loggingThread
             s1 == DAssert(s, GpuResourcesInitialized \notin f)
             s2 == IF Logging \in f /\ WindowEvent \in f
                   THEN PushEvent(s1, t, "Window", m, "Hidden")
                   ELSE s1
             s3 == Deref(s2, t, FALSE)
         IN IF s3.fault # "none" \/ s3.blocked THEN s3
            ELSE [s3 EXCEPT !.wm[m] = [NoWindowMonitor EXCEPT !.state = "freed"]]

\* ---- FMApplicationMonitorPrivate::removeMonitor, hasMonitor ----
HasMonitor(s, m) == \E i \in 1..Len(s.am.m_monitors) : s.am.m_monitors[i] = m

\* removeMonitor(): the position of the first entry equal to m, 0 if the loop
\* "for (int i = 0; i < m_monitorCount; ++i)" finds none.
RemoveMonitorIndex(list, m) ==
    LET hits == { k \in 1..Len(list) : list[k] = m }
    IN IF hits = {} THEN 0 ELSE CHOOSE k \in hits : \A j \in hits : k <= j

\* The value removeMonitor() returns.
RemoveMonitorReturned(s, m) == RemoveMonitorIndex(s.am.m_monitors, m) # 0

\* Variant of RemoveMonitorShifted: the last entry is moved into the hole.
RemoveMonitorSwapped(list, i) ==
    [k \in 1..(Len(list) - 1) |-> IF k = i THEN list[Len(list)] ELSE list[k]]

\* "memmove(&m_monitors[i], &m_monitors[i+1], ...)": the list without its
\* entry i, the entries behind it moved down by one.
RemoveMonitorShifted(list, i) ==
    [k \in 1..(Len(list) - 1) |-> IF k < i THEN list[k] ELSE list[k + 1]]

\* The registry after removeMonitor(m): unchanged if m is not found.
RemoveMonitor(s, m) ==
    LET i == RemoveMonitorIndex(s.am.m_monitors, m)
    IN IF i = 0 THEN s
       ELSE [s EXCEPT !.am.m_monitors = RemoveMonitorShifted(@, i)]

\* ---- FMOverlay::initialize, finalize, render ----
\* overlayInitialized is the Initialized bit of the m_flags of the overlay of
\* a monitor. initialize(): "const bool initialized =
\* m_bitmapText.initialize()" is ok, which depends on the GL context; the
\* bit is set, and true returned, only when it is true.
OverlayInitialize(s, m, ok) ==
    LET s1 == DAssert(s, ~s.wm[m].overlayInitialized)
    IN IF ok THEN [s1 EXCEPT !.wm[m].overlayInitialized = TRUE] ELSE s1

\* finalize(): "DASSERT(m_flags & Initialized)", "m_flags &= ~Initialized"
OverlayFinalize(s, m) ==
    [DAssert(s, s.wm[m].overlayInitialized) EXCEPT !.wm[m].overlayInitialized = FALSE]

\* render(): "DASSERT(m_flags & Initialized)", then the drawing.
OverlayRender(s, m) == DAssert(s, s.wm[m].overlayInitialized)

\* ---- WindowMonitor::initializeGpuResources ----
\* "m_overlay.initialize();" then "m_flags |= GpuResourcesInitialized": the
\* value initialize() returns is not looked at.
InitializeGpuResources(s, m, ok) ==
    LET s1 == DAssert(s, GpuResourcesInitialized \notin s.wm[m].m_flags)
        s2 == OverlayInitialize(s1, m, ok)
    IN [s2 EXCEPT !.wm[m].m_flags = @ \cup {GpuResourcesInitialized}]

\* ---- WindowMonitor::finalizeGpuResources ----
FinalizeGpuResources(s, m) ==
    LET s1 == DAssert(s, GpuResourcesInitialized \in s.wm[m].m_flags)
        s2 == OverlayFinalize(s1, m)
    IN [s2 EXCEPT !.wm[m].m_flags = @ \ {GpuResourcesInitialized}]

\* ---- WindowMonitor::setFlags ----
\* The monitoring flags are replaced, the GPU bits of the monitor kept.
SetFlags(s, m, flags) ==
    [s EXCEPT !.wm[m].m_flags =
        flags \cup (@ \cap {GpuResourcesInitialized})]

\* ---- WindowMonitorDeleter::run, then ~WindowMonitorDeleter up to the
\* return of removeMonitor() ----
DeleterRemoved(s, m) ==
    IF s.wm[m].state # "alive" THEN Fail(s, "useAfterFree")
    ELSE LET s1 == IF GpuResourcesInitialized \in s.wm[m].m_flags
                   THEN FinalizeGpuResources(s, m) ELSE s
         IN RemoveMonitor(s1, m)

\* The rest of a handler of the rendering thread that has taken m out of
\* the registry: "delete m_monitor", "delete this".
DeleteStep(m) == [kind |-> "delete", monitor |-> m, flags |-> {}]

\* The rendering thread of w is between removeMonitor() and the delete.
RenderBusy(w) == win[w].jobs # << >> /\ Head(win[w].jobs).kind = "delete"

\* ---- ~WindowMonitorFlagSetter ----
FlagSetterDone(s, m, flags) ==
    IF HasMonitor(s, m) THEN SetFlags(s, m, flags) ELSE s

\* The rendering thread of a window runs, then destroys, the oldest render
\* job scheduled on it (the rendering threads are threads of their own, and
\* handle every job posted to them). removeMonitor() releases the mutex of
\* the registry before the monitor is deleted: the delete is a step of its
\* own, taken before anything else on that thread.
RenderJob(w) ==
    /\ fault = "none"
    /\ win[w].jobs # << >>
    /\ LET job == Head(win[w].jobs)
           s == [Current EXCEPT !.win[w].jobs = Tail(@)]
       IN IF job.kind = "deleter"
          THEN LET s1 == DeleterRemoved(s, job.monitor) IN
               IF s1.fault = "none" /\ RemoveMonitorReturned(s, job.monitor)
               THEN Commit([s1 EXCEPT !.win[w].jobs = << DeleteStep(job.monitor) >> \o @],
                           FALSE)
               ELSE Commit(s1, FALSE)
          ELSE IF job.kind = "delete"
          THEN Commit(MonitorDeleted(s, job.monitor), FALSE)
          ELSE Commit(FlagSetterDone(s, job.monitor, job.flags), FALSE)
    /\ UNCHANGED << push_pc, setCalls, sinkLog, noDebug, freed, lastOp, result >>

\* ---- WindowMonitor::windowSceneGraphAboutToStop ----
\* The scene graph of a hidden window is torn down on its rendering thread,
\* once the thread has handled the jobs posted to it; "delete this" is a
\* step of its own.
AboutToStop(m) ==
    /\ fault = "none"
    /\ wm[m].state = "alive"
    /\ ~win[wm[m].window].visible
    /\ win[wm[m].window].jobs = << >>
    /\ LET s == Current
           s1 == IF HasMonitor(s, m) THEN RemoveMonitor(s, m)
                 ELSE IF noDebug THEN s ELSE Fail(s, "assert")
           s2 == IF s1.fault = "none" /\ GpuResourcesInitialized \in s1.wm[m].m_flags
                 THEN FinalizeGpuResources(s1, m) ELSE s1
       IN Commit([s2 EXCEPT !.win[wm[m].window].jobs = << DeleteStep(m) >>], FALSE)
    /\ UNCHANGED << push_pc, setCalls, sinkLog, noDebug, freed, lastOp, result >>

\* ---- WindowMonitor::windowFrameSwapped ----
\* Variant of FrameLogged: the filter is not looked at.
FrameLoggedUnfiltered(f) == Logging \in f

\* "if ((m_flags & Logging) && (m_flags & FrameEvent))"
FrameLogged(f) == Logging \in f /\ FrameEvent \in f

\* windowFrameSwapped() of monitor m; ok is what the initialisation of the
\* overlay gives in the GL context of the window when the call gets to
\* initializeGpuResources().
FrameSwappedWith(m, ok) ==
    /\ fault = "none"
    /\ wm[m].state = "alive"
    /\ win[wm[m].window].visible
    /\ ~RenderBusy(wm[m].window)
    /\ LET f == wm[m].m_flags IN
       IF GpuResourcesInitialized \in f
       THEN IF FrameLogged(f)
            THEN Commit(PushEvent(Current, wm[m].m_loggingThread, "Frame", m, ""), FALSE)
            ELSE Commit(Current, FALSE)
       ELSE Commit(InitializeGpuResources(Current, m, ok), FALSE)
    /\ UNCHANGED << push_pc, setCalls, sinkLog, noDebug, freed, lastOp, result >>

\* The same in a GL context in which the overlay initialises.
FrameSwapped(m) == FrameSwappedWith(m, TRUE)

\* ---- WindowMonitor::windowAfterRendering ----
\* "if (m_flags & GpuResourcesInitialized) { ... if (m_flags & Overlay)
\* m_overlay.render(...)"
OverlayRendered(f) == GpuResourcesInitialized \in f /\ Overlay \in f

AfterRendering(m) ==
    /\ fault = "none"
    /\ wm[m].state = "alive"
    /\ win[wm[m].window].visible
    /\ ~RenderBusy(wm[m].window)
    /\ IF OverlayRendered(wm[m].m_flags)
       THEN Commit(OverlayRender(Current, m), FALSE)
       ELSE Commit(Current, FALSE)
    /\ UNCHANGED << push_pc, setCalls, sinkLog, noDebug, freed, lastOp, result >>

\* The logging threads run as long as the process has not gone wrong.
AppRunSteps == fault = "none" /\ RunSteps

\* ---- the application monitor with its windows, their rendering threads
\* and the logging threads it creates ----
AppSteps ==
    \/ \E on \in BOOLEAN : SetOverlay(on)
    \/ \E on \in BOOLEAN : SetLogging(on)
    \/ CloseDown
    \/ \E id \in GenericIds : LogGenericEvent(id)
    \/ ProcessTimeout
    \/ \E w \in Windows : ShowWindow(w)
    \/ \E w \in Windows : HideWindow(w)
    \/ \E w \in Windows : RenderJob(w)
    \/ \E m \in MonitorIds : AboutToStop(m)
    \/ \E m \in MonitorIds : FrameSwapped(m)
    \/ AppJoin
    \/ StopFinish
    \/ \E t \in Threads : AppDeferredDelete(t)
    \/ AppRunSteps

NextApp ==
    \/ \E filter \in FilterChoices : SetLoggingFilter(filter)
    \/ AppSteps

\* The same, the callers switching the frame events off and on.
FrameFilterChoices == { AllEvents, AllEvents \ {FrameEvent} }

NextFilter ==
    \/ \E filter \in FrameFilterChoices : SetLoggingFilter(filter)
    \/ AppSteps

\* ---- the process timer: the calls that start and stop monitoring and
\* those that change the update interval, any number of times ----
MinInterval == 0 - 2
MaxInterval == 1
UpdateIntervals == (MinInterval..MaxInterval) \cup {1000}
IntervalTypes == {"Process", "Frame"}

\* The memory of a logging thread that was deleted is handed out again by
\* "new LoggingThread" in a later start().
ThreadReused(t) ==
    /\ fault = "none"
    /\ lt[t].state = "freed"
    /\ lt' = [lt EXCEPT ![t] = NoLoggingThread]
    /\ run' = [run EXCEPT ![t] = NewRun]
    /\ UNCHANGED << push_pc, hist, setCalls, sinkLog, am, wm, win, app,
                    noDebug, freed, fault, lastOp, result >>

NextTimer ==
    \/ \E on \in BOOLEAN : SetOverlay(on)
    \/ \E on \in BOOLEAN : SetLogging(on)
    \/ \E type \in IntervalTypes : \E interval \in UpdateIntervals :
          SetUpdateInterval(type, interval)
    \/ CloseDown
    \/ ProcessTimeout
    \/ \E w \in Windows : ShowWindow(w)
    \/ \E w \in Windows : RenderJob(w)
    \/ AppJoin
    \/ StopFinish
    \/ \E t \in Threads : AppDeferredDelete(t)
    \/ \E t \in Threads : ThreadReused(t)
    \/ AppRunSteps

\* ---- the overlay of the window monitors: the GL context of a window may
\* or may not let the overlay initialise ----
InitializeResults == BOOLEAN

NextOverlay ==
    \/ \E on \in BOOLEAN : SetOverlay(on)
    \/ \E on \in BOOLEAN : SetLogging(on)
    \/ \E w \in Windows : ShowWindow(w)
    \/ \E w \in Windows : HideWindow(w)
    \/ \E w \in Windows : RenderJob(w)
    \/ \E m \in MonitorIds : AboutToStop(m)
    \/ \E m \in MonitorIds : \E ok \in InitializeResults : FrameSwappedWith(m, ok)
    \/ \E m \in MonitorIds : AfterRendering(m)
    \/ AppJoin
    \/ StopFinish
    \/ \E t \in Threads : AppDeferredDelete(t)
    \/ AppRunSteps

\* ---- the logger table on its own: the three calls, in a monitor that is
\* not started, the caller keeping the loggers it removes ----
NextTable ==
    \/ \E l \in LoggerArgs : InstallLogger(l)
    \/ \E l \in LoggerArgs : RemoveLogger(l, FALSE)
    \/ ClearLoggers(FALSE)

InitTable ==
    /\ lt = [t \in Threads |-> NoLoggingThread]
    /\ run = [t \in Threads |-> NewRun]
    /\ hist = [t \in Threads |-> NewHist]
    /\ push_pc = [p \in Producers |-> "idle"]
    /\ setCalls = 0
    /\ sinkLog = [s \in Sinks |-> << >>]
    /\ InitApp(BOOLEAN)

SpecTable == InitTable /\ [][NextTable]_vars

\* ---- the logger table of a monitor that is started and stopped: the
\* three calls, the callers deleting or keeping the loggers they remove,
\* with generic events logged and the logging thread running. The callers
\* install up to MaxInstalled loggers at a time, and none that is installed
\* already. ----
MaxInstalled == 2

NextSinks ==
    \/ \E on \in BOOLEAN : SetLogging(on)
    \/ \E l \in LoggerArgs :
          /\ am.m_loggerCount < MaxInstalled
          /\ \A k \in 1..am.m_loggerCount : InstalledLoggers(am)[k] # l
          /\ InstallLogger(l)
    \/ \E l \in LoggerArgs, free \in BOOLEAN : RemoveLogger(l, free)
    \/ \E free \in BOOLEAN : ClearLoggers(free)
    \/ \E id \in GenericIds : LogGenericEvent(id)
    \/ AppJoin
    \/ StopFinish
    \/ AppRunSteps

SpecSinks == InitTable /\ [][NextSinks]_vars

SpecApp == InitTable /\ [][NextApp]_vars

SpecFilter == InitTable /\ [][NextFilter]_vars

\* ---- the registry of window monitors: an application with more visible
\* windows than the registry holds; the overlay is switched on, windows are
\* hidden, their scene graphs stopped, and shown again ----
RegistryWindows == 1..(maxMonitors + ExtraWindows)
RegistryMonitorIds == 1..(maxMonitors + ExtraMonitorIds)

\* The windows that are hidden and shown again: the first and the last
\* registered at start, and the first left out.
ToggledWindows == {1, maxMonitors, maxMonitors + 1}

InitRegistry ==
    /\ lt = [t \in Threads |-> NoLoggingThread]
    /\ run = [t \in Threads |-> NewRun]
    /\ hist = [t \in Threads |-> NewHist]
    /\ push_pc = [p \in Producers |-> "idle"]
    /\ setCalls = 0
    /\ sinkLog = [s \in Sinks |-> << >>]
    /\ noDebug \in BOOLEAN
    /\ am = NewApplicationMonitor(noDebug)
    /\ wm = [m \in RegistryMonitorIds |-> NoWindowMonitor]
    /\ win = [w \in RegistryWindows |-> [visible |-> TRUE, jobs |-> << >>]]
    /\ app = [pc |-> "idle", thread |-> NullThread, ret |-> "idle"]
    /\ freed = {}
    /\ fault = "none"
    /\ lastOp = "none"
    /\ result = FALSE

\* The logging thread is handed no event: run() goes to its wait.
NextRegistry ==
    \/ SetOverlay(TRUE)
    \/ \E w \in ToggledWindows : ShowWindow(w)
    \/ \E w \in ToggledWindows : HideWindow(w)
    \/ \E m \in RegistryMonitorIds : AboutToStop(m)
    \/ \E w \in ToggledWindows : RenderJob(w)
    \/ \E t \in Threads : fault = "none" /\ RunLock(t)
    \/ \E t \in Threads : fault = "none" /\ RunWait(t)

\* ---- the text formatters of the overlay: integerMetricToText and
\* timeMetricToText, applied to a field of a text buffer ----
MaxMetric == 1200
MaxCentis == 1500
MaxWidth == 6

\* The characters of the buffer; Blank is the space the overlay text holds
\* where a metric goes.
Blank == " "
decimalPoint == "."
decimalCount == 2

\* "(metric % 10) + '0'"
DigitChar(d) == << "0", "1", "2", "3", "4", "5", "6", "7", "8", "9" >>[d + 1]

\* The buffer the field lies in: text[0] .. text[width - 1] is the field, the
\* cells before and after it belong to the rest of the overlay text.
TextIndices == (0 - 1)..MaxWidth

BlankText == [k \in TextIndices |-> Blank]

\* The locals of a formatter call: the arguments metric, text and width as
\* the body changes them, the counter i of timeMetricToText, the indices
\* written so far, and the value returned once the call is over (done).
NewCall(metric, text, width) ==
    [ metric |-> metric, text |-> text, width |-> width, i |-> 0,
      touched |-> {}, done |-> FALSE, ret |-> 0 ]

\* Variant of Put: the index is decremented after the store.
PutPostDecrement(b, c) ==
    [b EXCEPT !.text = [k \in DOMAIN b.text |-> IF k = b.width THEN c ELSE @[k]],
              !.touched = @ \cup {b.width},
              !.width = @ - 1]

\* "text[--width] = c"
Put(b, c) ==
    [b EXCEPT !.width = @ - 1,
              !.text = [k \in DOMAIN b.text |-> IF k = b.width - 1 THEN c ELSE @[k]],
              !.touched = @ \cup {b.width - 1}]

\* "return v"
Return(b, v) == [b EXCEPT !.done = TRUE, !.ret = v]

\* Variant of IntegerMore: the loop ends before the leading digit.
IntegerMoreTens(metric) == metric >= 10

\* "while (metric != 0)"
IntegerMore(metric) == metric # 0

\* ---- integerMetricToText ----
\* do { text[--width] = (metric % 10) + '0'; if (width == 0) return 0;
\*      metric /= 10; } while (metric != 0); return width;
RECURSIVE IntegerLoop(_)
IntegerLoop(b) ==
    LET b1 == Put(b, DigitChar(b.metric % 10))
    IN IF b1.width = 0 THEN Return(b1, 0)
       ELSE LET b2 == [b1 EXCEPT !.metric = @ \div 10]
            IN IF IntegerMore(b2.metric) THEN IntegerLoop(b2)
               ELSE Return(b2, b2.width)

integerMetricToText(metric, text, width) == IntegerLoop(NewCall(metric, text, width))

\* ---- timeMetricToText ----
\* The first loop, the decimal digits: do { text[--width] = ...;
\* if (width == 0) return 0; metric /= 10; }
\* while (++i < decimalCount && metric != 0);
RECURSIVE DecimalLoop(_)
DecimalLoop(b) ==
    LET b1 == Put(b, DigitChar(b.metric % 10))
    IN IF b1.width = 0 THEN Return(b1, 0)
       ELSE LET b2 == [b1 EXCEPT !.metric = @ \div 10, !.i = @ + 1]
            IN IF b2.i < decimalCount /\ b2.metric # 0 THEN DecimalLoop(b2) ELSE b2

\* The loop of the integer part: do { text[--width] = ...; metric /= 10; }
\* while (metric != 0 && width > 0);
RECURSIVE IntegerPartLoop(_)
IntegerPartLoop(b) ==
    LET b1 == [Put(b, DigitChar(b.metric % 10)) EXCEPT !.metric = @ \div 10]
    IN IF b1.metric # 0 /\ b1.width > 0 THEN IntegerPartLoop(b1) ELSE b1

\* Variant of ToCentis: one digit too many is dropped.
ToCentisTenth(metric) == metric \div 100000

\* "metric /= 10000;  // 10^-9 to 10^-5 (to keep 2 valid decimal digits)."
ToCentis(metric) == metric \div 10000

timeMetricToText(metric, text, width) ==
    LET b == DecimalLoop(NewCall(ToCentis(metric), text, width))
    IN IF b.done THEN b
       ELSE IF b.metric # 0
       THEN LET b1 == Put(b, decimalPoint)
                b2 == IF b1.width > 0 THEN IntegerPartLoop(b1) ELSE b1
            IN Return(b2, b2.width)
       ELSE LET b1 == IF b.i = 1 THEN Put(b, "0") ELSE b
            IN IF b.i = 1 /\ b1.width = 0 THEN Return(b1, 0)
               ELSE LET b2 == Put(b1, decimalPoint)
                        b3 == IF b2.width > 0 THEN Put(b2, "0") ELSE b2
                    IN Return(b3, b3.width)

\* The metrics and the widths the formatters are called with: the small
\* integers, and times in nanoseconds on both sides of every hundredth of a
\* millisecond.
FormatMetrics ==
    (0..MaxMetric) \cup { c * 10000 + r : c \in 0..MaxCentis, r \in {0, 9999} }

FormatWidths == 1..MaxWidth

\* A call is about to be made on a blank field: result holds its arguments.
InitFormat ==
    /\ lt = [t \in Threads |-> NoLoggingThread]
    /\ run = [t \in Threads |-> NewRun]
    /\ hist = [t \in Threads |-> NewHist]
    /\ push_pc = [p \in Producers |-> "idle"]
    /\ setCalls = 0
    /\ sinkLog = [s \in Sinks |-> << >>]
    /\ noDebug \in BOOLEAN
    /\ am = NewApplicationMonitor(noDebug)
    /\ wm = [m \in MonitorIds |-> NoWindowMonitor]
    /\ win = [w \in Windows |-> [visible |-> FALSE, jobs |-> << >>]]
    /\ app = [pc |-> "idle", thread |-> NullThread, ret |-> "idle"]
    /\ freed = {}
    /\ fault = "none"
    /\ lastOp = "none"
    /\ result \in { [ metric |-> v, width |-> w, call |-> NewCall(v, BlankText, w) ] :
                      v \in FormatMetrics, w \in FormatWidths }

IntegerToText ==
    /\ lastOp = "none"
    /\ result' = [result EXCEPT
                    !.call = integerMetricToText(result.metric, BlankText, result.width)]
    /\ lastOp' = "integerMetricToText"
    /\ UNCHANGED << lt, run, push_pc, hist, setCalls, sinkLog, am, wm, win, app,
                    noDebug, freed, fault >>

TimeToText ==
    /\ lastOp = "none"
    /\ result' = [result EXCEPT
                    !.call = timeMetricToText(result.metric, BlankText, result.width)]
    /\ lastOp' = "timeMetricToText"
    /\ UNCHANGED << lt, run, push_pc, hist, setCalls, sinkLog, am, wm, win, app,
                    noDebug, freed, fault >>

NextFormat == IntegerToText \/ TimeToText

SpecFormat == InitFormat /\ [][NextFormat]_vars

\* ---- the text of the overlay: FMOverlay::parseText ----
maxMetricWidth == 32
maxKeywordStringSize == 128
maxParsedTextSize == 1024
maxMetricsPerType == 16

\* '\0', and the byte of a buffer that was never written.
Nul == "\\0"
Garbage == "#"

Digits == { DigitChar(d) : d \in 0..9 }

\* "text[i] - '0'" for a digit.
DigitValue(c) == CHOOSE d \in 0..9 : DigitChar(d) = c

\* keywordInfo[]: the names, in the order of the enum.
keywordInfo ==
    << << "q", "t", "V", "e", "r", "s", "i", "o", "n" >>,
       << "q", "t", "P", "l", "a", "t", "f", "o", "r", "m" >>,
       << "g", "l", "V", "e", "r", "s", "i", "o", "n" >>,
       << "c", "p", "u", "M", "o", "d", "e", "l" >>,
       << "g", "p", "u", "M", "o", "d", "e", "l" >> >>

\* metricInfo[]: name, defaultWidth and type, in the order of the enum.
metricInfo ==
    << [name |-> << "c", "p", "u", "U", "s", "a", "g", "e" >>,
        defaultWidth |-> 3, type |-> "Process"],
       [name |-> << "t", "h", "r", "e", "a", "d", "C", "o", "u", "n", "t" >>,
        defaultWidth |-> 3, type |-> "Process"],
       [name |-> << "v", "s", "z", "M", "e", "m", "o", "r", "y" >>,
        defaultWidth |-> 8, type |-> "Process"],
       [name |-> << "r", "s", "s", "M", "e", "m", "o", "r", "y" >>,
        defaultWidth |-> 8, type |-> "Process"],
       [name |-> << "w", "i", "n", "d", "o", "w", "I", "d" >>,
        defaultWidth |-> 2, type |-> "Window"],
       [name |-> << "w", "i", "n", "d", "o", "w", "S", "i", "z", "e" >>,
        defaultWidth |-> 9, type |-> "Window"],
       [name |-> << "f", "r", "a", "m", "e", "N", "u", "m", "b", "e", "r" >>,
        defaultWidth |-> 7, type |-> "Frame"],
       [name |-> << "d", "e", "l", "t", "a", "T", "i", "m", "e" >>,
        defaultWidth |-> 7, type |-> "Frame"],
       [name |-> << "s", "y", "n", "c", "T", "i", "m", "e" >>,
        defaultWidth |-> 7, type |-> "Frame"],
       [name |-> << "r", "e", "n", "d", "e", "r", "T", "i", "m", "e" >>,
        defaultWidth |-> 7, type |-> "Frame"],
       [name |-> << "g", "p", "u", "T", "i", "m", "e" >>,
        defaultWidth |-> 7, type |-> "Frame"],
       [name |-> << "t", "o", "t", "a", "l", "T", "i", "m", "e" >>,
        defaultWidth |-> 7, type |-> "Frame"] >>

MetricTypes == {"Process", "Window", "Frame"}

\* "text[i]" of the Latin-1 copy of m_text, which ends with '\0'.
TextAt(text, i) == IF i < Len(text) THEN text[i + 1] ELSE Nul

\* "!strncmp(&text[at], name, size)" with size the length of name.
NameAt(text, at, name) ==
    at + Len(name) <= Len(text) /\ SubSeq(text, at + 1, at + Len(name)) = name

\* The locals and members parseText works on: i and characters, the bytes of
\* m_parsedText written so far (out), m_metrics with m_metricsSize as the
\* lengths, the bytes of m_buffer, the number of bytes other than '\0' that
\* lie behind m_buffer in memory (beyond), and whether a byte was stored past
\* the end of m_parsedText (overflow) or read past the end of m_buffer
\* (overread).
NewParse(buffer) ==
    [ i |-> 0, characters |-> 0, out |-> << >>,
      m_metrics |-> [t \in MetricTypes |-> << >>],
      m_buffer |-> buffer.bytes, beyond |-> buffer.beyond,
      overflow |-> FALSE, overread |-> FALSE, over |-> FALSE ]

\* "m_parsedText[at] = c"
Store(p, at, c) ==
    IF at >= maxParsedTextSize \/ at > Len(p.out) THEN [p EXCEPT !.overflow = TRUE]
    ELSE IF at = Len(p.out) THEN [p EXCEPT !.out = Append(@, c)]
    ELSE [p EXCEPT !.out[at + 1] = c]

\* "m_parsedText[at + k] = bytes[k]" for each byte, as strcpy() and memset()
\* store them: the bytes past the end of m_parsedText are an overflow.
StoreAll(p, at, bytes) ==
    LET fit == IF Len(bytes) < maxParsedTextSize - at
               THEN Len(bytes) ELSE maxParsedTextSize - at
        size == IF Len(p.out) > at + fit THEN Len(p.out) ELSE at + fit
    IN [p EXCEPT !.out = [k \in 1..size |->
                             IF k > at /\ k <= at + fit THEN bytes[k - at] ELSE p.out[k]],
                 !.overflow = @ \/ fit < Len(bytes)]

\* keywordString(): the first bytes of the buffer are replaced by the string
\* of the keyword, "the terminating null byte ('\0') is not written".
KeywordStored(buffer, string) ==
    [k \in 1..Len(buffer) |-> IF k <= Len(string) THEN string[k] ELSE buffer[k]]

\* The bytes strcpy() copies from the buffer: up to and with the first '\0';
\* without one in the buffer it reads on past its end, to the first '\0' the
\* memory behind the buffer holds.
StrcpyBytes(buffer, beyond) ==
    LET nuls == { k \in 1..Len(buffer) : buffer[k] = Nul }
    IN IF nuls = {} THEN buffer \o [k \in 1..beyond |-> Garbage] \o << Nul >>
       ELSE SubSeq(buffer, 1, CHOOSE k \in nuls : \A j \in nuls : k <= j)

\* "if (stringSize < maxParsedTextSize - characters)"
KeywordFits(stringSize, characters) == stringSize < maxParsedTextSize - characters

\* The keyword branch for keywordInfo[j], whose string is string.
KeywordExpanded(p, j, string) ==
    LET buffer == KeywordStored(p.m_buffer, SubSeq(string, 1,
                      IF Len(string) < maxKeywordStringSize
                      THEN Len(string) ELSE maxKeywordStringSize))
        stringSize == IF Len(string) < maxKeywordStringSize
                      THEN Len(string) ELSE maxKeywordStringSize
        p1 == [p EXCEPT !.m_buffer = buffer]
    IN IF KeywordFits(stringSize, p.characters)
       THEN LET bytes == StrcpyBytes(buffer, p.beyond)
                p2 == StoreAll(p1, p.characters, bytes)
            IN [p2 EXCEPT !.characters = @ + stringSize,
                          !.i = @ + Len(keywordInfo[j]),
                          !.overread = @ \/ Len(bytes) > Len(buffer)]
       ELSE p1

\* The width read after the '%': -1 and no digit, or the value of one or two
\* digits bound to 1 .. maxMetricWidth, and the number of digits.
WidthRead(text, at) ==
    IF TextAt(text, at) \notin Digits THEN [width |-> 0 - 1, widthOffset |-> 0]
    ELSE LET w1 == DigitValue(TextAt(text, at))
             two == TextAt(text, at + 1) \in Digits
             w == IF two THEN w1 * 10 + DigitValue(TextAt(text, at + 1)) ELSE w1
         IN [width |-> IF w < 1 THEN 1 ELSE IF w > maxMetricWidth THEN maxMetricWidth ELSE w,
             widthOffset |-> IF two THEN 2 ELSE 1]

\* "if (m_metricsSize[type] < maxMetricsPerType && !strncmp(...))"
MetricAccepted(p, text, at, j) ==
    /\ Len(p.m_metrics[metricInfo[j].type]) < maxMetricsPerType
    /\ NameAt(text, at, metricInfo[j].name)

\* The metric branch: the first metric the loop over metricInfo accepts gets
\* a slot of '?' if its width fits.
MetricBound(p, text) ==
    LET r == WidthRead(text, p.i + 1)
        hits == { j \in 1..Len(metricInfo) : MetricAccepted(p, text, p.i + 1 + r.widthOffset, j) }
    IN IF hits = {} THEN p
       ELSE LET j == CHOOSE h \in hits : \A g \in hits : h <= g
                width == IF r.width = 0 - 1 THEN metricInfo[j].defaultWidth ELSE r.width
            IN IF width < maxParsedTextSize - p.characters
               THEN LET p1 == StoreAll(p, p.characters, [k \in 1..width |-> "?"])
                    IN [p1 EXCEPT
                          !.m_metrics[metricInfo[j].type] =
                              Append(@, [index |-> j, textIndex |-> p.characters,
                                         width |-> width]),
                          !.characters = @ + width,
                          !.i = @ + r.widthOffset + Len(metricInfo[j].name)]
               ELSE p

\* Variant of PercentEscaped: the second character after the '%' is looked at.
PercentEscapedLate(text, i) == TextAt(text, i + 2) = "%"

\* "else if (text[i+1] == '%')"
PercentEscaped(text, i) == TextAt(text, i + 1) = "%"

\* One pass of "for (int i = 0; i <= textSize; i++)", up to the test of the
\* capacity; keywords gives the string of each keyword on this platform.
ParseStep(p, text, keywords) ==
    LET character == TextAt(text, p.i)
    IN IF character # "%"
       THEN [Store(p, p.characters, character) EXCEPT !.characters = @ + 1]
       ELSE IF PercentEscaped(text, p.i)
       THEN [Store(p, p.characters, "%") EXCEPT !.characters = @ + 1, !.i = @ + 1]
       ELSE LET found == { j \in 1..Len(keywordInfo) : NameAt(text, p.i + 1, keywordInfo[j]) }
            IN IF found # {}
               THEN LET j == CHOOSE h \in found : \A g \in found : h <= g
                    IN KeywordExpanded(p, j, keywords[j])
               ELSE MetricBound(p, text)

\* One pass of the loop with its exit: "i <= textSize", the step, then
\* "if (characters >= (maxParsedTextSize - 1)) {
\* m_parsedText[maxParsedTextSize - 1] = '\0'; break; }" and "i++".
ParsePass(p, text, keywords) ==
    IF p.over THEN p
    ELSE IF p.i > Len(text) THEN [p EXCEPT !.over = TRUE]
    ELSE LET p1 == ParseStep(p, text, keywords)
         IN IF p1.characters >= maxParsedTextSize - 1
            THEN [Store(p1, maxParsedTextSize - 1, Nul) EXCEPT !.over = TRUE]
            ELSE [p1 EXCEPT !.i = @ + 1]

\* The passes over the characters from text[i] to the one before the next
\* '%', the final '\0' included: each is the first branch of the step and
\* the test of the capacity, so that they copy the characters one to one
\* until the text is over or the capacity is reached.
PlainPasses(p, text) ==
    LET percents == { k \in p.i..(Len(text) - 1) : text[k + 1] = "%" }
        stop == IF percents = {} THEN Len(text) + 1
                ELSE CHOOSE k \in percents : \A j \in percents : k <= j
        room == maxParsedTextSize - 1 - p.characters
        n == IF stop - p.i < room THEN stop - p.i ELSE room
        size == IF Len(p.out) > p.characters + n THEN Len(p.out) ELSE p.characters + n
        out == [k \in 1..size |->
                   IF k > p.characters /\ k <= p.characters + n
                   THEN TextAt(text, p.i + k - p.characters - 1) ELSE p.out[k]]
        p1 == [p EXCEPT !.out = out, !.characters = @ + n]
    IN IF n = room
       THEN [Store(p1, maxParsedTextSize - 1, Nul) EXCEPT !.i = @ + n - 1, !.over = TRUE]
       ELSE [p1 EXCEPT !.i = @ + n]

\* The loop: the passes until "i <= textSize" fails or the break is taken.
RECURSIVE ParseLoop(_, _, _)
ParseLoop(p, text, keywords) ==
    IF p.over THEN p
    ELSE IF p.i <= Len(text) /\ TextAt(text, p.i) # "%"
    THEN ParseLoop(PlainPasses(p, text), text, keywords)
    ELSE ParseLoop(ParsePass(p, text, keywords), text, keywords)

parseText(text, keywords, buffer) == ParseLoop(NewParse(buffer), text, keywords)

\* ---- the templates the overlay is constructed with ----
MaxPieces == 3
MaxPad == 1020
MaxRun == 17

\* The pieces the templates are made of: a percent sign, an escaped one, a
\* letter, digits, names of metrics and of keywords, and a name that is
\* neither.
Pieces ==
    { << "%" >>, << "%", "%" >>, << "a" >>, << "5" >>, << "4", "0" >>,
      << "f", "o", "o" >>,
      metricInfo[1].name, metricInfo[7].name, keywordInfo[2], keywordInfo[5] }

RECURSIVE Chains(_)
Chains(n) ==
    IF n = 0 THEN { << >> }
    ELSE LET shorter == Chains(n - 1)
         IN shorter \cup { c \o piece : c \in shorter, piece \in Pieces }

\* n placeholders of the Frame metrics, one after the other.
RECURSIVE FrameRun(_)
FrameRun(n) ==
    IF n = 0 THEN << >>
    ELSE FrameRun(n - 1) \o << "%" >> \o metricInfo[7 + (n % 6)].name

Padding(n) == [k \in 1..n |-> "a"]

PadLengths == {MaxPad - 20, MaxPad - 10, MaxPad}

\* What comes before a long run of letters: nothing, or the gpuModel keyword.
Heads == { << >>, << "%" >> \o keywordInfo[5] }

\* The templates: the chains of pieces, those of at most two pieces after a
\* long run of letters, and those of one piece after a run of placeholders.
Templates ==
    { pc[1] \o pc[2] :
        pc \in ({ << >> } \X Chains(MaxPieces))
               \cup ({ h \o Padding(n) : h \in Heads, n \in PadLengths } \X Chains(2))
               \cup ({ FrameRun(n) : n \in (MaxRun - 2)..MaxRun } \X Chains(1)) }

\* The strings keywordString() gives on a platform, by keyword; the OpenGL
\* renderer has a name of gpu characters, and platform is what is read as the
\* name of the platform.
KeywordStrings(gpu, platform) ==
    << [k \in 1..8 |-> "Q"], platform, [k \in 1..12 |-> "G"],
       [k \in 1..11 |-> "C"], [k \in 1..gpu |-> "R"] >>

\* "platform = QGuiApplication::platformName().toLatin1().constData()" points
\* into a byte array that is gone when the loop reads it: the bytes read are
\* the name, or whatever the memory holds by then.
PlatformReads ==
    { [k \in 1..3 |-> "P"], [k \in 1..maxKeywordStringSize |-> Garbage] }

GpuModelSizes == {20, maxKeywordStringSize}

MaxBeyond == 2

\* m_buffer as alignedAlloc() returns it: the memory may be zeroed or not,
\* and what lies behind it is not known.
NewBuffers ==
    { [ bytes |-> [k \in 1..maxKeywordStringSize |-> byte], beyond |-> n ] :
        byte \in { Nul, Garbage }, n \in { 0, MaxBeyond } }

\* An overlay was constructed with a template; result holds it, with the
\* strings of the platform and the content of m_buffer.
InitParse ==
    /\ lt = [t \in Threads |-> NoLoggingThread]
    /\ run = [t \in Threads |-> NewRun]
    /\ hist = [t \in Threads |-> NewHist]
    /\ push_pc = [p \in Producers |-> "idle"]
    /\ setCalls = 0
    /\ sinkLog = [s \in Sinks |-> << >>]
    /\ noDebug = TRUE
    /\ am = NewApplicationMonitor(noDebug)
    /\ wm = [m \in MonitorIds |-> NoWindowMonitor]
    /\ win = [w \in Windows |-> [visible |-> FALSE, jobs |-> << >>]]
    /\ app = [pc |-> "idle", thread |-> NullThread, ret |-> "idle"]
    /\ freed = {}
    /\ fault = "none"
    /\ lastOp = "none"
    /\ result \in { [ text |-> t, keywords |-> KeywordStrings(g, r),
                      parse |-> NewParse(b) ] :
                      t \in Templates, g \in GpuModelSizes, r \in PlatformReads,
                      b \in NewBuffers }

\* render() finds the text dirty and parses it.
ParseText ==
    /\ lastOp = "none"
    /\ result' = [result EXCEPT
                    !.parse = parseText(result.text, result.keywords,
                                        [ bytes |-> result.parse.m_buffer,
                                          beyond |-> result.parse.beyond ])]
    /\ lastOp' = "parseText"
    /\ UNCHANGED << lt, run, push_pc, hist, setCalls, sinkLog, am, wm, win, app,
                    noDebug, freed, fault >>

NextParse == ParseText

SpecParse == InitParse /\ [][NextParse]_vars

\* ---- FMOverlay::render and the slots ----
\* The text BitmapText shows after setText(m_parsedText): the characters
\* before the '\0'.
setText(out) ==
    LET nuls == { k \in 1..Len(out) : out[k] = Nul }
    IN IF nuls = {} THEN out
       ELSE SubSeq(out, 1, (CHOOSE k \in nuls : \A j \in nuls : k <= j) - 1)

\* updateText(text, index, width): the width characters of the shown text
\* from index on are replaced by text[0] .. text[width - 1].
updateText(shown, text, index, width) ==
    [k \in 1..Len(shown) |->
        IF k > index /\ k <= index + width THEN text[k - index - 1] ELSE shown[k]]

\* Variant of ScratchText: the scratch text is filled with zeros.
ScratchTextZeros == [k \in (0 - 1)..(maxMetricWidth - 1) |-> "0"]

\* "memset(text, ' ', maxMetricWidth)": the start of m_buffer, and the cell
\* before it.
ScratchText == [k \in (0 - 1)..(maxMetricWidth - 1) |-> Blank]

na == << "N", "/", "A" >>

\* "while (textWidth > 0 && naSize > 0)"
NaMore(textWidth, naSize) == textWidth > 0 /\ naSize > 0

\* "do { text[--textWidth] = na[--naSize]; } while (...)"
RECURSIVE NaLoop(_, _)
NaLoop(b, naSize) ==
    LET b1 == Put(b, na[naSize])
    IN IF NaMore(b1.width, naSize - 1) THEN NaLoop(b1, naSize - 1) ELSE b1

\* Variant of GpuTimeMeasured: a time of zero is a measure too.
GpuTimeMeasuredZero(gpuTime) == gpuTime >= 0

\* "if (event.frame.gpuTime > 0)"
GpuTimeMeasured(gpuTime) == gpuTime > 0

\* The switch of updateFrameMetrics for one slot, on the blank scratch text.
FrameMetricText(slot, frame) ==
    LET b == NewCall(0, ScratchText, slot.width)
    IN CASE slot.index = 7 -> integerMetricToText(frame.number, ScratchText, slot.width)
         [] slot.index = 8 -> timeMetricToText(frame.deltaTime, ScratchText, slot.width)
         [] slot.index = 9 -> timeMetricToText(frame.syncTime, ScratchText, slot.width)
         [] slot.index = 10 -> timeMetricToText(frame.renderTime, ScratchText, slot.width)
         [] slot.index = 11 ->
                IF GpuTimeMeasured(frame.gpuTime)
                THEN timeMetricToText(frame.gpuTime, ScratchText, slot.width)
                ELSE NaLoop(b, 3)
         [] slot.index = 12 ->
                timeMetricToText(frame.syncTime + frame.renderTime + frame.gpuTime,
                                 ScratchText, slot.width)

\* Variant of SeparatorFits: the separator is written in the last column too.
SeparatorFitsOne(textWidth) == textWidth >= 1

\* "if (textWidth >= 2)"
SeparatorFits(textWidth) == textWidth >= 2

\* The switch of updateWindowMetrics for one slot.
WindowMetricText(slot, windowId, frameSize) ==
    IF slot.index = 5 THEN integerMetricToText(windowId, ScratchText, slot.width)
    ELSE LET b == integerMetricToText(frameSize.height, ScratchText, slot.width)
             textWidth == b.ret
         IN IF SeparatorFits(textWidth)
            THEN LET b1 == Put([b EXCEPT !.width = textWidth], "x")
                     b2 == IntegerLoop([b1 EXCEPT !.metric = frameSize.width])
                 IN b2
            ELSE IF textWidth = 1
            THEN Put([b EXCEPT !.width = textWidth], "x")
            ELSE b

\* The switch of updateProcessMetrics for one slot.
ProcessMetricText(slot, process) ==
    CASE slot.index = 1 -> integerMetricToText(process.cpuUsage, ScratchText, slot.width)
      [] slot.index = 2 -> integerMetricToText(process.threadCount, ScratchText, slot.width)
      [] slot.index = 3 -> integerMetricToText(process.vszMemory, ScratchText, slot.width)
      [] slot.index = 4 -> integerMetricToText(process.rssMemory, ScratchText, slot.width)

\* The loop of an update*Metrics over the slots of one type from the n-th on,
\* calls[n] being the scratch text as the switch leaves it for the n-th slot:
\* its characters go to the shown text; touched collects, by slot, the
\* indices of the scratch text that were written.
RECURSIVE UpdateSlots(_, _, _, _)
UpdateSlots(o, type, calls, n) ==
    IF n > Len(o.parse.m_metrics[type]) THEN o
    ELSE LET slot == o.parse.m_metrics[type][n]
         IN UpdateSlots([o EXCEPT !.shown = updateText(@, calls[n].text,
                                                       slot.textIndex, slot.width),
                                  !.touched = @ \cup { << n, k >> : k \in calls[n].touched }],
                        type, calls, n + 1)

updateFrameMetrics(o, frame) ==
    UpdateSlots(o, "Frame",
                [n \in 1..Len(o.parse.m_metrics["Frame"]) |->
                    FrameMetricText(o.parse.m_metrics["Frame"][n], frame)], 1)

updateWindowMetrics(o, windowId, frameSize) ==
    UpdateSlots(o, "Window",
                [n \in 1..Len(o.parse.m_metrics["Window"]) |->
                    WindowMetricText(o.parse.m_metrics["Window"][n], windowId, frameSize)], 1)

updateProcessMetrics(o) ==
    UpdateSlots(o, "Process",
                [n \in 1..Len(o.parse.m_metrics["Process"]) |->
                    ProcessMetricText(o.parse.m_metrics["Process"][n], o.m_processEvent)], 1)

\* No frame was rendered yet.
NoFrameSize == [width |-> 0 - 1, height |-> 0 - 1]

\* "memset(&m_processEvent, 0, sizeof(m_processEvent));"
NoProcessSample == [cpuUsage |-> 0, threadCount |-> 0, vszMemory |-> 0, rssMemory |-> 0]

\* FMOverlay::FMOverlay(text, windowId): "m_frameSize(0, 0)", the text and
\* the process event are dirty, the sizes of m_metrics are zero and
\* m_processEvent is zeroed.
NewOverlay(text, windowId, buffer) ==
    [ m_text |-> text, m_windowId |-> windowId,
      m_flags |-> {"DirtyText", "DirtyProcessEvent"},
      parse |-> NewParse(buffer), shown |-> << >>,
      m_frameSize |-> [width |-> 0, height |-> 0],
      m_processEvent |-> NoProcessSample,
      touched |-> {} ]

\* ---- FMOverlay::setProcessEvent ----
\* "memcpy(&m_processEvent, &processEvent, sizeof(m_processEvent));
\* m_flags |= DirtyProcessEvent;"
setProcessEvent(o, processEvent) ==
    [o EXCEPT !.m_processEvent = processEvent, !.m_flags = @ \cup {"DirtyProcessEvent"}]

\* FMOverlay::render(frameEvent, frameSize) on an initialized overlay, part
\* by part: "if (m_flags & DirtyText) { parseText(); setText(m_parsedText);
\* m_flags &= ~DirtyText; }"
RenderText(o, keywords) ==
    IF "DirtyText" \in o.m_flags
    THEN LET parse == parseText(o.m_text, keywords,
                                [bytes |-> o.parse.m_buffer, beyond |-> o.parse.beyond])
         IN [o EXCEPT !.parse = parse, !.shown = setText(parse.out),
                      !.m_flags = @ \ {"DirtyText"}]
    ELSE o

\* "if (m_frameSize != frameSize) { updateWindowMetrics(m_windowId,
\* frameSize); ... m_frameSize = frameSize; }"
RenderWindow(o, frameSize) ==
    IF o.m_frameSize # frameSize
    THEN [updateWindowMetrics(o, o.m_windowId, frameSize) EXCEPT !.m_frameSize = frameSize]
    ELSE o

\* "if (m_flags & DirtyProcessEvent) { updateProcessMetrics();
\* m_flags &= ~DirtyProcessEvent; }"
RenderProcess(o) ==
    IF "DirtyProcessEvent" \in o.m_flags
    THEN [updateProcessMetrics(o) EXCEPT !.m_flags = @ \ {"DirtyProcessEvent"}]
    ELSE o

\* ---- the overlays and the frames of the render specification ----
MaxSlotWidth == 9
MaxFrameNumber == 123456

\* A width as the one or two digits of a placeholder.
WidthDigits(w) ==
    IF w < 10 THEN << DigitChar(w) >> ELSE << DigitChar(w \div 10), DigitChar(w % 10) >>

\* The text with a slot of each type: "c%cpuUsagew%windowIds%windowSize
\* t%totalTime" without the line break, the slots 3, 2, 9 and 7 wide.
EachTypeText ==
    << "c", "%" >> \o metricInfo[1].name \o << "w", "%" >> \o metricInfo[5].name
        \o << "s", "%" >> \o metricInfo[6].name \o << "t", "%" >> \o metricInfo[12].name

\* The texts the overlays are constructed with: the frame number in five
\* columns, the GPU time and the size of the window in every width, and a
\* line with a slot of each type.
RenderTexts ==
    { << "F", ":", "%", "5" >> \o metricInfo[7].name, EachTypeText }
    \cup { << "%" >> \o WidthDigits(w) \o name :
             w \in 1..MaxSlotWidth, name \in { metricInfo[11].name, metricInfo[6].name } }

\* The frames rendered: numbers, and times in nanoseconds, gpuTime being what
\* m_gpuTimer.stop() returns.
FrameNumbers == {7, 107, MaxFrameNumber}
GpuTimes == {0, 15000000}
FrameSizes ==
    { [width |-> 1920, height |-> 1080], [width |-> 7, height |-> 1080],
      [width |-> 640, height |-> 48], [width |-> 0, height |-> 0] }

\* The samples of the process handed to setProcessEvent().
ProcessSamples ==
    { [cpuUsage |-> 12, threadCount |-> 4, vszMemory |-> 1000, rssMemory |-> 500],
      [cpuUsage |-> 100, threadCount |-> 5, vszMemory |-> 2000, rssMemory |-> 600] }

Frames ==
    { [ number |-> n, deltaTime |-> 16000000, syncTime |-> 1000000,
        renderTime |-> 2000000, gpuTime |-> g ] : n \in FrameNumbers, g \in GpuTimes }

\* "m_frameEvent.frame.gpuTime =
\*      (m_flags & GpuTimerAvailable) ? m_gpuTimer.stop() : 0"
FrameGpuTime(gpuTimerAvailable, stopped) == IF gpuTimerAvailable THEN stopped ELSE 0

\* An overlay was constructed and initialized, the GPU timer being available
\* unless FM_NO_GPU_TIMER is set; result holds the overlay with the last
\* frame rendered, the text shown before that and the sample of the last
\* setProcessEvent().
InitOverlays(texts) ==
    /\ lt = [t \in Threads |-> NoLoggingThread]
    /\ run = [t \in Threads |-> NewRun]
    /\ hist = [t \in Threads |-> NewHist]
    /\ push_pc = [p \in Producers |-> "idle"]
    /\ setCalls = 0
    /\ sinkLog = [s \in Sinks |-> << >>]
    /\ noDebug = TRUE
    /\ am = NewApplicationMonitor(noDebug)
    /\ wm = [m \in MonitorIds |-> NoWindowMonitor]
    /\ win = [w \in Windows |-> [visible |-> FALSE, jobs |-> << >>]]
    /\ app = [pc |-> "idle", thread |-> NullThread, ret |-> "idle"]
    /\ freed = {}
    /\ fault = "none"
    /\ lastOp = "none"
    /\ result \in { [ overlay |-> NewOverlay(t, 1, b), gpuTimerAvailable |-> a,
                      frame |-> [number |-> 0], frameSize |-> NoFrameSize,
                      before |-> << >>, process |-> NoProcessSample ] :
                      t \in texts, b \in NewBuffers, a \in BOOLEAN }

InitRender == InitOverlays(RenderTexts)

\* windowAfterRendering() sets the GPU time of the frame event and renders it
\* on the overlay: render() does its parts in their order, the last being
\* updateFrameMetrics().
Render(frame, frameSize) ==
    /\ \E o1 \in { RenderText([result.overlay EXCEPT !.touched = {}],
                              KeywordStrings(20, [k \in 1..3 |-> "P"])) } :
          \E o2 \in { RenderWindow(o1, frameSize) } :
             \E o3 \in { RenderProcess(o2) } :
                \E event \in { [frame EXCEPT !.gpuTime =
                                   FrameGpuTime(result.gpuTimerAvailable, @)] } :
                   result' = [ overlay |-> updateFrameMetrics(o3, event),
                               gpuTimerAvailable |-> result.gpuTimerAvailable,
                               frame |-> event, frameSize |-> frameSize,
                               before |-> result.overlay.shown,
                               process |-> result.process ]
    /\ lastOp' = "render"
    /\ UNCHANGED << lt, run, push_pc, hist, setCalls, sinkLog, am, wm, win, app,
                    noDebug, freed, fault >>

\* WindowMonitor::setProcessEvent hands a sample to the overlay, between two
\* renders (both hold the mutex of the monitor).
SetProcessEvent(processEvent) ==
    /\ result' = [result EXCEPT !.overlay = setProcessEvent(@, processEvent),
                                !.process = processEvent]
    /\ lastOp' = "setProcessEvent"
    /\ UNCHANGED << lt, run, push_pc, hist, setCalls, sinkLog, am, wm, win, app,
                    noDebug, freed, fault >>

NextRender == \E frame \in Frames, frameSize \in FrameSizes : Render(frame, frameSize)

SpecRender == InitRender /\ [][NextRender]_vars

\* ---- the overlay of the text with a slot of each type: samples of the
\* process come between the renders ----
InitSamples == InitOverlays({EachTypeText})

SampleFrames == { frame \in Frames : frame.number = MaxFrameNumber }

NextSamples ==
    \/ \E frame \in SampleFrames, frameSize \in FrameSizes : Render(frame, frameSize)
    \/ \E processEvent \in ProcessSamples : SetProcessEvent(processEvent)

SpecSamples == InitSamples /\ [][NextSamples]_vars

\* ---- one window monitor and the rendering thread of its window ----
\* The monitor is wm[1] of a record r that holds, next to it, the registry
\* of the application monitor (am.m_monitors), m_frameEvent.frame.number
\* (number), the GpuTimerAvailable bit (gpuTimerAvailable), the static
\* noGpuTimer of initializeGpuResources(), the render jobs scheduled on the
\* window and not yet run (jobs), the place of the rendering thread in its
\* frame (position) and the events handed to LoggingThread::push() in the
\* order of the calls (pushed); constructed tells that startMonitoring() has
\* returned. inits and finals count the calls of
\* initializeGpuResources() and finalizeGpuResources(); failed names the
\* functions entered while their DASSERT on GpuResourcesInitialized is
\* false, in a debug and in a release build alike. MaxFrames caps the
\* number of a frame, MaxInits the initialisations, MaxPushed the events
\* pushed before a frame is swapped and MaxPending the jobs not yet run.
MaxFrames == 2
MaxInits == 2
MaxPushed == 2
MaxPending == 1

WindowPushed(state) == [ type |-> "Window", state |-> state, number |-> 0, inits |-> 0 ]

\* "m_loggingThread->push(&m_frameEvent)": the number of the frame event as
\* it is at the call; inits tells the initialisations apart.
FramePushed(r) == [ type |-> "Frame", state |-> "", number |-> r.number, inits |-> r.inits ]

\* ---- WindowMonitor::WindowMonitor, up to the last connect() ----
\* The members of the initialiser list are set and the eight signals of
\* the window are connected to the monitor, by direct connections: the
\* rendering thread of a window that is being drawn calls the slots from
\* here on. m_frameEvent still holds what the allocation left, and
\* startMonitoring() has not stored the monitor in the registry.
NewPipeline(flags, position, noGpuTimer) ==
    [ wm |-> << NewWindowMonitor(1, flags, 1) >>,
      am |-> [ m_monitors |-> << >> ],
      fault |-> "none",
      noGpuTimer |-> noGpuTimer,
      gpuTimerAvailable |-> FALSE,
      number |-> Indeterminate,
      constructed |-> FALSE,
      position |-> position,
      jobs |-> << >>,
      pushed |-> << >>,
      inits |-> 0,
      finals |-> 0,
      failed |-> {} ]

\* ---- the rest of WindowMonitor::WindowMonitor, and of startMonitoring()
\* ----
\* "memset(&m_frameEvent, 0, sizeof(m_frameEvent));", the Shown event, then
\* "m_monitorCount++" of startMonitoring(). The thread of the application
\* writes m_frameEvent without a lock, whatever the rendering thread has
\* written to it since the signals were connected.
WindowMonitorConstructed(r) ==
    LET f == r.wm[1].m_flags
        r1 == [r EXCEPT !.number = 0]
        r2 == IF Logging \in f /\ WindowEvent \in f
              THEN [r1 EXCEPT !.pushed = Append(@, WindowPushed("Shown"))]
              ELSE r1
    IN [r2 EXCEPT !.am.m_monitors = Append(@, 1), !.constructed = TRUE]

Initialized(r) == GpuResourcesInitialized \in r.wm[1].m_flags

\* ---- WindowMonitor::initializeGpuResources ----
\* "m_frameEvent.frame.number = 0; m_flags |= GpuResourcesInitialized |
\* (!noGpuTimer ? GpuTimerAvailable : 0);"
initializeGpuResources(r, ok) ==
    [ InitializeGpuResources(r, 1, ok) EXCEPT
        !.number = 0,
        !.gpuTimerAvailable = @ \/ ~r.noGpuTimer,
        !.inits = @ + 1,
        !.failed = IF Initialized(r) THEN @ \cup {"initializeGpuResources"} ELSE @ ]

\* ---- WindowMonitor::finalizeGpuResources ----
\* "m_frameEvent.frame.number = 0; m_flags &= ~(GpuResourcesInitialized |
\* GpuTimerAvailable);"
finalizeGpuResources(r) ==
    [ FinalizeGpuResources(r, 1) EXCEPT
        !.number = 0,
        !.gpuTimerAvailable = FALSE,
        !.finals = @ + 1,
        !.failed = IF Initialized(r) THEN @ ELSE @ \cup {"finalizeGpuResources"} ]

\* ---- WindowMonitor::windowSceneGraphInitialized ----
\* Variant of SceneGraphInitializes: the flag is not looked at.
SceneGraphInitializesAlways(f) == TRUE

\* "if (!(m_flags & GpuResourcesInitialized))"
SceneGraphInitializes(f) == GpuResourcesInitialized \notin f

windowSceneGraphInitialized(r, ok) ==
    IF SceneGraphInitializes(r.wm[1].m_flags) THEN initializeGpuResources(r, ok) ELSE r

\* ---- WindowMonitor::windowSceneGraphInvalidated ----
windowSceneGraphInvalidated(r) ==
    IF Initialized(r) THEN finalizeGpuResources(r) ELSE r

\* ---- WindowMonitor::windowBeforeRendering ----
\* "if (frameSize != m_frameSize)": resized tells that the size of the
\* window is not the one the monitor has stored; the Resized event is
\* pushed when window events are logged. The timers started after that are
\* not part of the record.
windowBeforeRendering(r, resized) ==
    LET f == r.wm[1].m_flags
    IN IF resized /\ Logging \in f /\ WindowEvent \in f
       THEN [r EXCEPT !.pushed = Append(@, WindowPushed("Resized"))]
       ELSE r

\* ---- WindowMonitor::windowAfterRendering ----
\* "m_frameEvent.frame.number++;"
NextFrameNumber(number) == number + 1

windowAfterRendering(r) ==
    IF Initialized(r)
    THEN LET r1 == [r EXCEPT !.number = NextFrameNumber(@)]
         IN IF OverlayRendered(r.wm[1].m_flags) THEN OverlayRender(r1, 1) ELSE r1
    ELSE r

\* ---- WindowMonitor::windowFrameSwapped ----
\* "m_window->update()" of the else branch asks for a frame and changes
\* nothing here.
windowFrameSwapped(r, ok) ==
    IF Initialized(r)
    THEN IF FrameLogged(r.wm[1].m_flags)
         THEN [r EXCEPT !.pushed = Append(@, FramePushed(r))]
         ELSE r
    ELSE initializeGpuResources(r, ok)

\* ---- WindowMonitor::~WindowMonitor ----
\* "DASSERT(!(m_flags & GpuResourcesInitialized));", the Hidden event, and
\* the monitor is gone.
WindowMonitorDestroyed(r) ==
    LET f == r.wm[1].m_flags
        r1 == DAssert(r, ~Initialized(r))
        r2 == IF Logging \in f /\ WindowEvent \in f
              THEN [r1 EXCEPT !.pushed = Append(@, WindowPushed("Hidden"))]
              ELSE r1
    IN [r2 EXCEPT !.wm[1].state = "freed",
                  !.failed = IF Initialized(r) THEN @ \cup {"~WindowMonitor"} ELSE @]

\* ---- WindowMonitor::windowSceneGraphAboutToStop ----
\* Debug builds: "ASSERT(...->removeMonitor(this) == true);"; then "if
\* (m_flags & GpuResourcesInitialized) finalizeGpuResources(); delete this;"
windowSceneGraphAboutToStop(r) ==
    LET r1 == IF RemoveMonitorReturned(r, 1) THEN RemoveMonitor(r, 1)
              ELSE IF noDebug THEN r ELSE Fail(r, "assert")
        r2 == IF Initialized(r1) THEN finalizeGpuResources(r1) ELSE r1
    IN WindowMonitorDestroyed(r2)

\* ---- WindowMonitorDeleter::run, ~WindowMonitorDeleter ----
\* run(): "if (m_monitor->gpuResourcesInitialized())
\* m_monitor->finalizeGpuResources();"; the destructor: "if
\* (...->removeMonitor(m_monitor)) delete m_monitor;". A job whose monitor
\* is gone reads freed memory in run().
WindowMonitorDeleterRun(r) ==
    IF r.wm[1].state # "alive" THEN Fail(r, "useAfterFree")
    ELSE LET r1 == IF Initialized(r) THEN finalizeGpuResources(r) ELSE r
         IN IF RemoveMonitorReturned(r1, 1)
            THEN WindowMonitorDestroyed(RemoveMonitor(r1, 1))
            ELSE r1

\* The monitoring flags the application monitor hands to its window
\* monitors.
PipelineFlags ==
    { {Overlay}, {Logging, FrameEvent}, {Logging, WindowEvent},
      {Logging, Overlay, FrameEvent, WindowEvent} }

\* The rendering thread is between two frames ("idle") or between the
\* afterRendering() and the frameSwapped() of a frame ("rendered"); the
\* monitor is connected to the window by the thread of the application,
\* at any point of a frame.
Positions == {"idle", "rendered"}

InitPipeline ==
    /\ lt = [t \in Threads |-> NoLoggingThread]
    /\ run = [t \in Threads |-> NewRun]
    /\ hist = [t \in Threads |-> NewHist]
    /\ push_pc = [p \in Producers |-> "idle"]
    /\ setCalls = 0
    /\ sinkLog = [s \in Sinks |-> << >>]
    /\ noDebug \in BOOLEAN
    /\ am = NewApplicationMonitor(noDebug)
    /\ wm = [m \in MonitorIds |-> NoWindowMonitor]
    /\ win = [w \in Windows |-> [visible |-> FALSE, jobs |-> << >>]]
    /\ app = [pc |-> "idle", thread |-> NullThread, ret |-> "idle"]
    /\ freed = {}
    /\ fault = "none"
    /\ lastOp = "none"
    /\ result \in { NewPipeline(flags, position, noGpuTimer) :
                      flags \in PipelineFlags, position \in Positions,
                      noGpuTimer \in BOOLEAN }

\* A handler of the rendering thread, or a call of the thread of the
\* application, has taken the record to r.
PipelineStep(r, op) ==
    /\ result' = r
    /\ lastOp' = op
    /\ UNCHANGED << lt, run, push_pc, hist, setCalls, sinkLog, am, wm, win, app,
                    noDebug, freed, fault >>

\* The thread of the application gets to the end of startMonitoring().
PipelineStartMonitoring ==
    /\ result.fault = "none"
    /\ ~result.constructed
    /\ PipelineStep(WindowMonitorConstructed(result), "startMonitoring")

\* The monitor receives the signals of its window until it is destroyed;
\* a failed assertion ends the process.
PipelineAlive == result.fault = "none" /\ result.wm[1].state = "alive"

\* sceneGraphInitialized() is emitted when the rendering thread sets up the
\* scene graph, before the first callback of a frame.
PipelineSceneGraphInitialized(ok) ==
    /\ PipelineAlive
    /\ result.position = "idle"
    /\ result.inits < MaxInits
    /\ PipelineStep(windowSceneGraphInitialized(result, ok), "windowSceneGraphInitialized")

PipelineSceneGraphInvalidated ==
    /\ PipelineAlive
    /\ PipelineStep(windowSceneGraphInvalidated(result), "windowSceneGraphInvalidated")

\* beforeRendering() is emitted before the scene graph of a frame is
\* rendered; the window may have been resized since the last frame. The
\* size of a window is changed by the thread of the application, which
\* reads it in the initialiser list of the constructor and is inside
\* startMonitoring() until the monitor is constructed.
PipelineBeforeRendering(resized) ==
    /\ PipelineAlive
    /\ result.position = "idle"
    /\ resized => result.constructed
    /\ Len(result.pushed) < MaxPushed
    /\ PipelineStep(windowBeforeRendering(result, resized), "windowBeforeRendering")

PipelineAfterRendering ==
    /\ PipelineAlive
    /\ result.position = "idle"
    /\ result.number < MaxFrames
    /\ PipelineStep([windowAfterRendering(result) EXCEPT !.position = "rendered"],
                    "windowAfterRendering")

PipelineFrameSwapped(ok) ==
    /\ PipelineAlive
    /\ result.position = "rendered"
    /\ result.inits < MaxInits
    /\ Len(result.pushed) < MaxPushed
    /\ PipelineStep([windowFrameSwapped(result, ok) EXCEPT !.position = "idle"],
                    "windowFrameSwapped")

\* The scene graph is torn down once the rendering thread has handled the
\* jobs posted to it; removeMonitor() waits for m_monitorsMutex, which the
\* caller of startMonitoring() holds.
PipelineAboutToStop ==
    /\ PipelineAlive
    /\ result.constructed
    /\ result.jobs = << >>
    /\ PipelineStep(windowSceneGraphAboutToStop(result), "windowSceneGraphAboutToStop")

DeleterScheduled(r) == \E k \in 1..Len(r.jobs) : r.jobs[k].kind = "deleter"

\* ---- FMApplicationMonitorPrivate::stopMonitoring, for a monitor of the
\* registry ----
PipelineStopMonitoring ==
    /\ result.fault = "none"
    /\ HasMonitor(result, 1)
    /\ ~DeleterScheduled(result)
    /\ Len(result.jobs) < MaxPending
    /\ PipelineStep([result EXCEPT !.jobs = Append(@, [kind |-> "deleter", monitor |-> 1, flags |-> {}])],
                    "stopMonitoring")

\* ---- FMApplicationMonitorPrivate::setMonitoringFlags, for a monitor of
\* the registry ----
PipelineSetMonitoringFlags(flags) ==
    /\ result.fault = "none"
    /\ HasMonitor(result, 1)
    /\ Len(result.jobs) < MaxPending
    /\ PipelineStep([result EXCEPT !.jobs = Append(@, [kind |-> "flags", monitor |-> 1, flags |-> flags])],
                    "setMonitoringFlags")

\* The rendering thread runs, then destroys, the oldest job scheduled on
\* the window.
PipelineRenderJob ==
    /\ result.fault = "none"
    /\ result.jobs # << >>
    /\ LET job == Head(result.jobs)
           r == [result EXCEPT !.jobs = Tail(@)]
       IN IF job.kind = "deleter"
          THEN PipelineStep(WindowMonitorDeleterRun(r), "WindowMonitorDeleter")
          ELSE PipelineStep(FlagSetterDone(r, 1, job.flags), "WindowMonitorFlagSetter")

NextPipeline ==
    \/ PipelineStartMonitoring
    \/ \E ok \in InitializeResults : PipelineSceneGraphInitialized(ok)
    \/ PipelineSceneGraphInvalidated
    \/ PipelineAfterRendering
    \/ \E ok \in InitializeResults : PipelineFrameSwapped(ok)
    \/ PipelineAboutToStop
    \/ PipelineStopMonitoring
    \/ \E flags \in PipelineFlags : PipelineSetMonitoringFlags(flags)
    \/ PipelineRenderJob

SpecPipeline == InitPipeline /\ [][NextPipeline]_vars

\* The same, with the beforeRendering() of the frames and the window
\* resized between them.
NextWindowEvents ==
    \/ NextPipeline
    \/ \E resized \in BOOLEAN : PipelineBeforeRendering(resized)

SpecWindowEvents == InitPipeline /\ [][NextWindowEvents]_vars

\* ---- the teardown of one window monitor: the thread of the application,
\* the rendering thread of the window and the logging thread ----
\* The three threads take their steps in any order; a handler is cut where
\* it takes a lock, and the rendering thread handles the jobs scheduled on
\* the window and the signals of the window in any order. The record r
\* holds the monitor (wm[1]), the registry (am.m_monitors), the monitoring
\* flags of the application monitor (flags) with its Started bit (started),
\* the event filter and the process timer, the jobs scheduled on the window,
\* the number of events in the queue of the logging thread (queued), the
\* holder of each lock and the place of each thread (pc). History: deletes
\* counts the runs of ~WindowMonitor and deletedBy names the handlers that
\* called it, removedBy names the handler whose removeMonitor() returned
\* true, missed the handlers that found the
\* monitor gone from the registry, touched the handlers that used the
\* monitor after its destruction, order the pairs << held, taken >> of
\* locks. MaxFree caps the free slots of the queue.
MaxFree == 1

Locks == {"queue", "registry", "overlay"}

TeardownThreads == {"application", "rendering", "logging"}

NewTeardown(flags, queued) ==
    [ wm |-> << NoWindowMonitor >>,
      am |-> [ m_monitors |-> << >> ],
      flags |-> flags,
      started |-> TRUE,
      filterInstalled |-> TRUE,
      timerActive |-> TRUE,
      fault |-> "none",
      jobs |-> << >>,
      queued |-> queued,
      holder |-> [l \in Locks |-> "none"],
      pc |-> [t \in TeardownThreads |-> "idle"],
      deletes |-> 0,
      removedBy |-> "none",
      deletedBy |-> {},
      missed |-> {},
      touched |-> {},
      order |-> {} ]

Held(r, t) == { l \in Locks : r.holder[l] = t }

\* QMutex::lock() has returned in thread t, QMutex::unlock().
Lock(r, t, l) ==
    [r EXCEPT !.holder[l] = t, !.order = @ \cup { << h, l >> : h \in Held(r, t) \ {l} }]

Unlock(r, l) == [r EXCEPT !.holder[l] = "none"]

At(r, t, pc) == [r EXCEPT !.pc[t] = pc]

\* The handler op reads or writes the members of the monitor.
Touch(r, op) ==
    IF r.wm[1].state = "alive" THEN r ELSE [r EXCEPT !.touched = @ \cup {op}]

WindowLogged(f) == Logging \in f /\ WindowEvent \in f

\* ---- LoggingThread::push ----
\* Variant of PushYieldHolds: the full queue is waited for with m_mutex
\* held.
PushYieldKeepsMutex == {"queue"}

\* "while (m_queueSize == logQueueSize) { m_mutex.unlock();
\* QThread::yieldCurrentThread(); m_mutex.lock(); }": the locks held while
\* the thread yields.
PushYieldHolds == {}

QueueFull(r) == r.queued = logQueueSize

\* push() of thread t, from "m_mutex.lock()" on: the event is stored, or
\* the thread yields.
TeardownPush(r, t) ==
    IF QueueFull(r)
    THEN IF "queue" \in PushYieldHolds THEN Lock(r, t, "queue") ELSE r
    ELSE Unlock(Lock([r EXCEPT !.queued = @ + 1], t, "queue"), "queue")

\* The places at which a thread is in push().
Pushing(r, t) ==
    \/ t = "application" /\ r.pc[t] = "show_ctor" /\ WindowLogged(r.flags)
    \/ t = "application" /\ r.pc[t] = "tick_push"
    \/ t = "rendering" /\ r.pc[t] \in {"ats_delete", "deleter_delete"}
                       /\ WindowLogged(r.wm[1].m_flags)
    \/ t = "rendering" /\ r.pc[t] = "frame_push"

\* The lock the next step of thread t takes, "none" if it takes none.
Wanted(r, t) ==
    IF Pushing(r, t) THEN "queue"
    ELSE IF t = "logging"
    THEN IF r.queued > logQueueSize - MaxFree THEN "queue" ELSE "none"
    ELSE IF r.pc[t] \in {"show_lock", "tick_lock", "stop_lock", "stop_wait", "flags_lock",
                         "ats_remove", "deleter_dtor", "flags_dtor"}
    THEN "registry"
    ELSE IF \/ r.pc[t] = "render_lock"
            \/ r.pc[t] = "show_set" /\ Overlay \in r.flags
            \/ r.pc[t] = "tick_each" /\ HasMonitor(r, 1) /\ Overlay \in r.wm[1].m_flags
    THEN "overlay"
    ELSE "none"

\* The next step of thread t can be taken as far as the locks go.
Granted(r, t) ==
    LET l == Wanted(r, t) IN IF l = "none" THEN TRUE ELSE r.holder[l] \in {"none", t}

\* The threads thread t waits for: the holder of the lock it wants, the
\* logging thread while it yields in push(), the rendering thread while
\* stop() waits for the registry to empty.
WaitsFor(r, t) ==
    { u \in TeardownThreads \ {t} :
        \/ LET l == Wanted(r, t) IN IF l = "none" THEN FALSE ELSE r.holder[l] = u
        \/ u = "logging" /\ Pushing(r, t) /\ QueueFull(r)
        \/ u = "rendering" /\ r.pc[t] = "stop_wait" /\ r.am.m_monitors # << >> }

TeardownFlags ==
    { {Overlay}, {Logging} \cup AllEvents, {Overlay, Logging} \cup AllEvents }

InitTeardown ==
    /\ lt = [t \in Threads |-> NoLoggingThread]
    /\ run = [t \in Threads |-> NewRun]
    /\ hist = [t \in Threads |-> NewHist]
    /\ push_pc = [p \in Producers |-> "idle"]
    /\ setCalls = 0
    /\ sinkLog = [s \in Sinks |-> << >>]
    /\ noDebug \in BOOLEAN
    /\ am = NewApplicationMonitor(noDebug)
    /\ wm = [m \in MonitorIds |-> NoWindowMonitor]
    /\ win = [w \in Windows |-> [visible |-> FALSE, jobs |-> << >>]]
    /\ app = [pc |-> "idle", thread |-> NullThread, ret |-> "idle"]
    /\ freed = {}
    /\ fault = "none"
    /\ lastOp = "none"
    /\ result \in { NewTeardown(flags, queued) :
                      flags \in TeardownFlags,
                      queued \in (logQueueSize - MaxFree)..logQueueSize }

\* Thread t is at pc and its next step can be taken.
Ready(t, pc) ==
    /\ result.fault = "none"
    /\ result.pc[t] = pc
    /\ Granted(result, t)

\* A step of thread t that calls push(): the thread stays where it is when
\* the queue is full, and goes on with rest otherwise.
PushThen(t, rest(_), op) ==
    LET r == TeardownPush(result, t) IN
    IF QueueFull(result)
    THEN r # result /\ PipelineStep(r, op)
    ELSE PipelineStep(rest(r), op)

\* ---- FMApplicationMonitor::eventFilter: the Show event of the window ----
\* "d->m_monitorsMutex.lock(); d->startMonitoring(window);
\* d->m_monitorsMutex.unlock();". startMonitoring(): the constructor of the
\* monitor (its signals are connected, the Shown event is pushed), then
\* setProcessEvent() and "m_monitorCount++".
TeardownShow ==
    \/ /\ Ready("application", "idle")
       /\ result.filterInstalled
       /\ result.wm[1].state = "none"
       /\ PipelineStep(At(result, "application", "show_lock"), "eventFilter")
    \/ /\ Ready("application", "show_lock")
       /\ PipelineStep(At(Lock(result, "application", "registry"), "application", "show_ctor"),
                       "eventFilter")
    \/ /\ Ready("application", "show_ctor")
       /\ LET Constructed(r) ==
                  At([r EXCEPT !.wm[1] = NewWindowMonitor(1, r.flags, 1)],
                     "application", "show_set")
          IN IF WindowLogged(result.flags)
             THEN PushThen("application", Constructed, "WindowMonitor")
             ELSE PipelineStep(Constructed(result), "WindowMonitor")
    \/ /\ Ready("application", "show_set")
       /\ LET r1 == IF Overlay \in result.flags
                    THEN Unlock(Lock(result, "application", "overlay"), "overlay")
                    ELSE result
              r2 == [r1 EXCEPT !.am.m_monitors = Append(@, 1)]
          IN PipelineStep(At(Unlock(r2, "registry"), "application", "idle"),
                          "startMonitoring")

\* ---- FMApplicationMonitorPrivate::processTimeout ----
\* The process event is pushed, then set on the monitors of the registry
\* with m_monitorsMutex held.
TeardownProcessTimeout ==
    \/ /\ Ready("application", "idle")
       /\ result.started /\ result.timerActive
       /\ Logging \in result.flags \/ Overlay \in result.flags
       /\ PipelineStep(At(result, "application",
                          IF Logging \in result.flags /\ ProcessEvent \in result.flags
                          THEN "tick_push" ELSE "tick_lock"),
                       "processTimeout")
    \/ /\ Ready("application", "tick_push")
       /\ LET Then(r) == At(r, "application",
                            IF Overlay \in r.flags THEN "tick_lock" ELSE "idle")
          IN PushThen("application", Then, "processTimeout")
    \/ /\ Ready("application", "tick_lock")
       /\ PipelineStep(At(Lock(result, "application", "registry"), "application", "tick_each"),
                       "processTimeout")
    \/ /\ Ready("application", "tick_each")
       /\ LET r1 == IF HasMonitor(result, 1)
                    THEN LET r0 == Touch(result, "setProcessEvent")
                         IN IF Overlay \in result.wm[1].m_flags
                            THEN Unlock(Lock(r0, "application", "overlay"), "overlay")
                            ELSE r0
                    ELSE result
          IN PipelineStep(At(Unlock(r1, "registry"), "application", "idle"), "setProcessEvent")

\* ---- FMApplicationMonitorPrivate::setMonitoringFlags ----
\* The overlay or the logging is switched while the other one stays on.
TeardownSetMonitoringFlags(flags) ==
    \/ /\ Ready("application", "idle")
       /\ result.started
       /\ flags # result.flags
       /\ Len(result.jobs) < MaxPending
       /\ PipelineStep(At([result EXCEPT !.flags = flags], "application", "flags_lock"),
                       "setMonitoringFlags")
    \/ /\ Ready("application", "flags_lock")
       /\ flags = result.flags
       /\ LET r1 == Lock(result, "application", "registry")
              r2 == IF HasMonitor(r1, 1)
                    THEN [Touch(r1, "setMonitoringFlags") EXCEPT
                            !.jobs = Append(@, [kind |-> "flags", monitor |-> 1,
                                                flags |-> flags])]
                    ELSE r1
          IN PipelineStep(At(Unlock(r2, "registry"), "application", "idle"),
                          "setMonitoringFlags")

\* ---- FMApplicationMonitorPrivate::stop ----
\* Variant of StopScheduled: the loop ends one entry early.
StopScheduledButLast(list) == 1..(Len(list) - 1)

\* "for (int i = 0; i < m_monitorCount; ++i) { stopMonitoring(m_monitors[i]);
\* }": the entries of the registry a deletion job is scheduled for.
StopScheduled(list) == 1..Len(list)

\* The timer is stopped and the event filter removed; a deletion job is
\* scheduled for each monitor of the registry with m_monitorsMutex held;
\* then "while (m_monitorCount > 0)" the events of the thread are
\* processed, and Started is cleared.
TeardownStop ==
    \/ /\ Ready("application", "idle")
       /\ result.started
       /\ PipelineStep(At([result EXCEPT !.timerActive = FALSE, !.filterInstalled = FALSE],
                          "application", "stop_lock"),
                       "stop")
    \/ /\ Ready("application", "stop_lock")
       /\ LET r1 == Lock(result, "application", "registry")
              r2 == IF \E i \in StopScheduled(r1.am.m_monitors) : r1.am.m_monitors[i] = 1
                    THEN [Touch(r1, "stopMonitoring") EXCEPT
                            !.jobs = Append(@, [kind |-> "deleter", monitor |-> 1,
                                                flags |-> {}])]
                    ELSE r1
          IN PipelineStep(At(Unlock(r2, "registry"), "application", "stop_wait"), "stop")
    \/ /\ Ready("application", "stop_wait")
       /\ result.am.m_monitors = << >>
       /\ PipelineStep(At([result EXCEPT !.started = FALSE], "application", "idle"), "stop")

\* ---- WindowMonitor::windowAfterRendering ----
TeardownAfterRendering ==
    \/ /\ Ready("rendering", "idle")
       /\ result.wm[1].state = "alive"
       /\ OverlayRendered(result.wm[1].m_flags)
       /\ PipelineStep(At(result, "rendering", "render_lock"), "windowAfterRendering")
    \/ /\ Ready("rendering", "render_lock")
       /\ PipelineStep(At(Lock(Touch(result, "windowAfterRendering"), "rendering", "overlay"),
                          "rendering", "render"),
                       "windowAfterRendering")
    \/ /\ Ready("rendering", "render")
       /\ PipelineStep(At(Unlock(OverlayRender(result, 1), "overlay"), "rendering", "idle"),
                       "windowAfterRendering")

\* ---- WindowMonitor::windowFrameSwapped ----
\* The overlay initialises in the GL context of the window.
TeardownFrameSwapped ==
    \/ /\ Ready("rendering", "idle")
       /\ result.wm[1].state = "alive"
       /\ LET f == result.wm[1].m_flags IN
          IF GpuResourcesInitialized \in f
          THEN /\ FrameLogged(f)
               /\ PipelineStep(At(result, "rendering", "frame_push"), "windowFrameSwapped")
          ELSE PipelineStep(InitializeGpuResources(result, 1, TRUE), "windowFrameSwapped")
    \/ /\ Ready("rendering", "frame_push")
       /\ LET Then(r) == At(r, "rendering", "idle")
          IN PushThen("rendering", Then, "windowFrameSwapped")

\* ---- WindowMonitor::~WindowMonitor, called by handler op ----
TeardownDestroyed(r, op) ==
    LET r1 == DAssert(Touch(r, op), GpuResourcesInitialized \notin r.wm[1].m_flags)
    IN [r1 EXCEPT !.wm[1].state = "freed", !.deletes = @ + 1,
                  !.deletedBy = @ \cup {op}]

\* removeMonitor(m_monitor) of handler op, with what it returned.
TeardownRemoved(r, op) ==
    IF RemoveMonitorReturned(r, 1)
    THEN [RemoveMonitor(r, 1) EXCEPT !.removedBy = op]
    ELSE [r EXCEPT !.missed = @ \cup {op}]

\* ---- WindowMonitor::windowSceneGraphAboutToStop ----
\* The signal reaches the monitor from the end of its constructor to its
\* destruction. Debug builds: "ASSERT(...->removeMonitor(this) == true);".
TeardownAboutToStop ==
    \/ /\ Ready("rendering", "idle")
       /\ result.wm[1].state = "alive"
       /\ PipelineStep(At(result, "rendering", "ats_remove"), "windowSceneGraphAboutToStop")
    \/ /\ Ready("rendering", "ats_remove")
       /\ LET r1 == Unlock(TeardownRemoved(Lock(result, "rendering", "registry"),
                                           "windowSceneGraphAboutToStop"), "registry")
              r2 == DAssert(r1, RemoveMonitorReturned(result, 1))
              r3 == IF r2.fault = "none" /\ GpuResourcesInitialized \in r2.wm[1].m_flags
                    THEN FinalizeGpuResources(r2, 1) ELSE r2
          IN PipelineStep(At(r3, "rendering", "ats_delete"), "windowSceneGraphAboutToStop")
    \/ /\ Ready("rendering", "ats_delete")
       /\ LET Deleted(r) == At(TeardownDestroyed(r, "windowSceneGraphAboutToStop"),
                               "rendering", "idle")
          IN IF WindowLogged(result.wm[1].m_flags)
             THEN PushThen("rendering", Deleted, "windowSceneGraphAboutToStop")
             ELSE PipelineStep(Deleted(result), "windowSceneGraphAboutToStop")

\* ---- WindowMonitorDeleter::run, ~WindowMonitorDeleter ----
\* Variant of DeleterDeletes: the monitor is deleted whatever removeMonitor()
\* returned.
DeleterDeletesAlways(removed) == TRUE

\* "if (...->removeMonitor(m_monitor)) { delete m_monitor; }"
DeleterDeletes(removed) == removed

\* run() reads the GpuResourcesInitialized bit of the monitor: a monitor
\* that is gone yields any value, and finalizeGpuResources() is then called
\* on it.
TeardownDeleter(bit) ==
    \/ /\ Ready("rendering", "idle")
       /\ result.jobs # << >> /\ Head(result.jobs).kind = "deleter"
       /\ LET r == [result EXCEPT !.jobs = Tail(@)]
              r1 == IF r.wm[1].state = "alive"
                    THEN IF GpuResourcesInitialized \in r.wm[1].m_flags
                         THEN FinalizeGpuResources(r, 1) ELSE r
                    ELSE IF bit
                    THEN Touch(Touch(r, "WindowMonitorDeleter::run"), "finalizeGpuResources")
                    ELSE Touch(r, "WindowMonitorDeleter::run")
          IN /\ r.wm[1].state = "alive" => bit
             /\ PipelineStep(At(r1, "rendering", "deleter_dtor"), "WindowMonitorDeleter")
    \/ /\ Ready("rendering", "deleter_dtor")
       /\ bit
       /\ LET r1 == Unlock(TeardownRemoved(Lock(result, "rendering", "registry"),
                                           "WindowMonitorDeleter"), "registry")
          IN PipelineStep(At(r1, "rendering",
                             IF DeleterDeletes(RemoveMonitorReturned(result, 1))
                             THEN "deleter_delete" ELSE "idle"),
                          "WindowMonitorDeleter")
    \/ /\ Ready("rendering", "deleter_delete")
       /\ bit
       /\ LET Deleted(r) == At(TeardownDestroyed(r, "WindowMonitorDeleter"),
                               "rendering", "idle")
          IN IF WindowLogged(result.wm[1].m_flags)
             THEN PushThen("rendering", Deleted, "WindowMonitorDeleter")
             ELSE PipelineStep(Deleted(result), "WindowMonitorDeleter")

\* ---- ~WindowMonitorFlagSetter ----
\* "if (...->hasMonitor(m_monitor)) { m_monitor->setFlags(m_flags); }"
TeardownFlagSetter ==
    \/ /\ Ready("rendering", "idle")
       /\ result.jobs # << >> /\ Head(result.jobs).kind = "flags"
       /\ PipelineStep(At(result, "rendering", "flags_dtor"), "WindowMonitorFlagSetter")
    \/ /\ Ready("rendering", "flags_dtor")
       /\ LET job == Head(result.jobs)
              r == Unlock(Lock([result EXCEPT !.jobs = Tail(@)], "rendering", "registry"),
                          "registry")
              r1 == IF HasMonitor(r, 1)
                    THEN SetFlags(Touch(r, "WindowMonitorFlagSetter"), 1, job.flags)
                    ELSE [r EXCEPT !.missed = @ \cup {"WindowMonitorFlagSetter"}]
          IN PipelineStep(At(r1, "rendering", "idle"), "WindowMonitorFlagSetter")

\* ---- LoggingThread::run ----
\* The oldest event is taken from the queue with m_mutex held, and logged
\* with the mutex released.
TeardownRun ==
    /\ Ready("logging", "idle")
    /\ result.queued > logQueueSize - MaxFree
    /\ PipelineStep(Unlock(Lock([result EXCEPT !.queued = @ - 1], "logging", "queue"),
                           "queue"),
                    "run")

TeardownRenderJob == \E bit \in BOOLEAN : TeardownDeleter(bit)

\* The steps of each thread.
TeardownSteps(t) ==
    IF t = "application"
    THEN \/ TeardownShow
         \/ TeardownProcessTimeout
         \/ \E flags \in TeardownFlags : TeardownSetMonitoringFlags(flags)
         \/ TeardownStop
    ELSE IF t = "rendering"
    THEN \/ TeardownAfterRendering
         \/ TeardownFrameSwapped
         \/ TeardownAboutToStop
         \/ TeardownRenderJob
         \/ TeardownFlagSetter
    ELSE TeardownRun

NextTeardown == \E t \in TeardownThreads : TeardownSteps(t)

SpecTeardown == InitTeardown /\ [][NextTeardown]_vars

\* ---- fairness of the teardown: a thread that has entered a handler goes
\* on with it, getting the lock it waits for once it is free; the rendering
\* thread runs the jobs scheduled on the window; stop(), once called, is
\* not held up by its own thread ----
TeardownGoesOn(t) == result.pc[t] # "idle" /\ TeardownSteps(t)

TeardownFairness ==
    /\ \A t \in TeardownThreads : SF_vars(TeardownGoesOn(t))
    /\ SF_vars(TeardownRenderJob)
    /\ SF_vars(TeardownFlagSetter)
    /\ WF_vars(TeardownRun)

SpecTeardownFair == InitTeardown /\ [][NextTeardown]_vars /\ TeardownFairness

SpecTimer == InitTable /\ [][NextTimer]_vars

SpecOverlay == InitTable /\ [][NextOverlay]_vars

SpecRegistry == InitRegistry /\ [][NextRegistry]_vars

\* ---- the generic event system: registration of ids and logging of generic
\* events, with logging switched on and off and the filter changed ----
NextGeneric ==
    \/ RegisterGenericEvent
    \/ \E id \in GenericIds : LogGenericEvent(id)
    \/ \E on \in BOOLEAN : SetLogging(on)
    \/ \E filter \in FilterChoices : SetLoggingFilter(filter)
    \/ AppJoin
    \/ StopFinish
    \/ AppRunSteps

SpecGeneric == InitTable /\ [][NextGeneric]_vars

\* ---- fairness: the threads are scheduled and mutex waiters get the lock ----
Fairness ==
    /\ \A p \in Producers : WF_vars(PushYield(p)) /\ WF_vars(PushStore(p))
    /\ \A p \in Producers : SF_vars(PushRelock(p))
    /\ \A t \in Threads :
        /\ SF_vars(RunLock(t)) /\ SF_vars(RunWake(t))
        /\ WF_vars(RunExit(t)) /\ WF_vars(RunWait(t)) /\ WF_vars(RunProceed(t))
        /\ WF_vars(RunWakeExit(t)) /\ WF_vars(RunWakeProceed(t))
        /\ WF_vars(RunDequeue(t)) /\ WF_vars(RunLog(t)) /\ WF_vars(RunLogDone(t))

SpecFair == InitStarted /\ [][NextStarted]_vars /\ Fairness

\* ---- properties of the logging thread ----

\* C1: the consumer dequeues the events in the order in which the pushes took
\* their slot (the k-th dequeue yields the k-th stored event), and every sink
\* is handed events in that order (ranks never decrease along a sink's log).
C1_Fifo ==
    /\ run[T1].pc = "log" => run[T1].event = TaggedEvent(hist[T1].dequeued)
    /\ \A s \in Sinks : \A k \in 1..(Len(sinkLog[s]) - 1) :
          sinkLog[s][k].rank <= sinkLog[s][k + 1].rank

\* A sink has received more events than the ring buffer has slots.
C1_Witness == \E s \in Sinks : Len(sinkLog[s]) > logQueueSize

\* C2: the consumer loop exits only with the join request set and the queue
\* empty, and at that point every stored event has been dequeued and fanned
\* out to the sinks.
C2_NoLossOnShutdown ==
    run[T1].pc = "exited" =>
        /\ JoinRequested \in lt[T1].m_flags
        /\ lt[T1].m_queueSize = 0
        /\ hist[T1].dequeued = hist[T1].pushed
        /\ hist[T1].delivered = hist[T1].pushed

\* The consumer has exited after more events than the capacity were pushed.
C2_Witness ==
    /\ run[T1].pc = "exited"
    /\ hist[T1].pushed > logQueueSize
    /\ hist[T1].delivered = hist[T1].pushed

\* C3: the fill count never exceeds the capacity and a push only writes a
\* slot that holds no event still to be dequeued; in particular nothing is
\* stored while the queue is full.
C3_BoundedNoOverwrite ==
    [][ /\ lt'[T1].m_queueSize <= logQueueSize
        /\ \A s \in 0..(logQueueSize - 1) :
              lt'[T1].m_queue[s] # lt[T1].m_queue[s] => s \notin LiveSlots(T1) ]_vars

\* A push found the queue full and yielded, after a wrap-around of the ring.
C3_Witness ==
    /\ lt[T1].m_queueSize = logQueueSize
    /\ hist[T1].pushed > logQueueSize
    /\ \E p \in Producers : push_pc[p] = "yield"

\* C4: the fill count is positive whenever run() is at the dequeue step, also
\* after a wake-up from the condition variable; it is never negative.
C4_NoDequeueFromEmpty ==
    /\ lt[T1].m_queueSize >= 0
    /\ run[T1].pc = "dequeue" => lt[T1].m_queueSize > 0

\* run() is at the dequeue step after a wake-up, with the join requested.
C4_Witness ==
    /\ run[T1].pc = "dequeue"
    /\ hist[T1].woken
    /\ JoinRequested \in lt[T1].m_flags

\* C5: under fair scheduling every push completes, and the consumer does not
\* stay parked on the condition variable while the queue is non-empty or the
\* join is requested.
C5_Progress ==
    /\ \A p \in Producers : (push_pc[p] # "idle") ~> (push_pc[p] = "idle")
    /\ (/\ run[T1].pc = "waiting"
        /\ (lt[T1].m_queueSize > 0 \/ JoinRequested \in lt[T1].m_flags))
          ~> (run[T1].pc # "waiting")

\* The consumer is parked, the queue is full, and a producer is spinning.
C5_Witness ==
    /\ run[T1].pc = "waiting"
    /\ lt[T1].m_queueSize = logQueueSize
    /\ \E p \in Producers : push_pc[p] = "yield"

\* C6: the loggers called for a dequeued event are, in order and once per
\* entry, those of the table installed when it was dequeued, whatever
\* setLoggers does during the fan-out.
C6_SnapshotFanout ==
    /\ run[T1].pc = "log" =>
          /\ run[T1].i <= Len(hist[T1].dequeueLoggers)
          /\ hist[T1].eventCalls = SubSeq(hist[T1].dequeueLoggers, 1, run[T1].i)
    /\ run[T1].pc # "log" => hist[T1].eventCalls = hist[T1].dequeueLoggers

\* setLoggers replaced the table in the middle of a fan-out.
C6_Witness ==
    /\ run[T1].pc = "log"
    /\ run[T1].i > 0
    /\ run[T1].i < run[T1].loggerCount
    /\ TableSeq(lt[T1].m_loggers, lt[T1].m_loggerCount) # hist[T1].dequeueLoggers

\* ---- properties of the logger table ----

\* The elements of a sequence.
Range(seq) == { seq[k] : k \in 1..Len(seq) }

\* C7: the installed logger count stays within 0..8, and installLogger called
\* with 8 loggers installed, or with a null logger, returns false and leaves
\* the table unchanged.
C7_InstallBounded ==
    [][ /\ am'.m_loggerCount \in 0..maxLoggers
        /\ \A l \in Sinks \cup {NoLogger} :
              (InstallLogger(l) /\ (am.m_loggerCount = maxLoggers \/ l = NoLogger))
                  => (result' = FALSE /\ am' = am) ]_vars

\* installLogger was refused on a full table.
C7_Witness ==
    /\ lastOp = "installLogger"
    /\ am.m_loggerCount = maxLoggers
    /\ result = FALSE

\* C8 (as claimed): removeLogger of a logger installed once, whatever its
\* position, returns true and leaves the other installed loggers and not it;
\* removeLogger of a logger that is not installed returns false and leaves
\* the table unchanged.
C8_RemoveExact ==
    [][ \A l \in Sinks :
          RemoveLogger(l, FALSE) =>
              LET before == InstalledLoggers(am)
                  after == InstalledLoggers(am')
                  count == Cardinality({ k \in 1..Len(before) : before[k] = l })
              IN /\ count = 1 =>
                       /\ result' = TRUE
                       /\ Range(after) = Range(before) \ {l}
                       /\ Len(after) = Len(before) - 1
                 /\ count = 0 => (result' = FALSE /\ after = before) ]_vars

\* ---- properties of the application monitor ----

\* stop() is entered by the step: the application thread leaves the event
\* loop for the wait of stop(), or for the join that precedes it.
StopEntered ==
    /\ app.pc = "idle"
    /\ (app'.pc = "stop_wait" \/ (app'.pc = "join" /\ app'.ret = "stop_wait"))

\* C9: setOverlay leaves the logging flag alone and setLogging the overlay
\* flag; as long as closeDown has not been called, monitoring is started,
\* between two calls, exactly when overlay or logging is enabled; and stop()
\* is entered only by the call that turns off the one of the two that was
\* still on.
C9_IndependentToggles ==
    /\ [](AppIdle /\ ClosingDown \notin am.m_flags =>
             (Started \in am.m_flags <=>
                 (Overlay \in am.m_flags \/ Logging \in am.m_flags)))
    /\ [][ /\ \A on \in BOOLEAN :
                /\ SetOverlay(on) =>
                      ((Logging \in am'.m_flags) <=> (Logging \in am.m_flags))
                /\ SetLogging(on) =>
                      ((Overlay \in am'.m_flags) <=> (Overlay \in am.m_flags))
           /\ (StopEntered /\ ClosingDown \notin am'.m_flags) =>
                /\ Overlay \notin am'.m_flags
                /\ Logging \notin am'.m_flags
                /\ (Overlay \in am.m_flags) # (Logging \in am.m_flags) ]_vars

\* Logging was on (the logging thread was handed an event), it was turned
\* off, and monitoring goes on with the same logging thread for the overlay.
C9_Witness ==
    /\ AppIdle
    /\ ClosingDown \notin am.m_flags
    /\ Started \in am.m_flags
    /\ Overlay \in am.m_flags
    /\ Logging \notin am.m_flags
    /\ am.m_loggingThread # NullThread
    /\ hist[am.m_loggingThread].pushed > 0

\* C10 (as claimed): logGenericEvent returns false and pushes nothing if
\* logging is disabled or the filter lacks GenericEvent; otherwise it returns
\* true after pushing exactly one Generic event that carries the given id.
C10_GenericEvent ==
    [][ \A id \in GenericIds :
          LogGenericEvent(id) =>
              IF Logging \notin am.m_flags \/ GenericEvent \notin am.m_flags
              THEN result' = FALSE /\ lt' = lt
              ELSE LET t == am.m_loggingThread IN
                   /\ fault' = "none"
                   /\ result' = TRUE
                   /\ t # NullThread
                   /\ lt'[t].m_queueSize = lt[t].m_queueSize + 1
                   /\ LET event == lt'[t].m_queue[PushSlot(lt[t].m_queueIndex,
                                                           lt[t].m_queueSize)]
                      IN event.type = "Generic" /\ event.id = id
                   /\ \A u \in Threads \ {t} : lt'[u] = lt[u] ]_vars

TypeBit(type) ==
    CASE type = "Process" -> ProcessEvent
      [] type = "Window" -> WindowEvent
      [] type = "Frame" -> FrameEvent
      [] OTHER -> GenericEvent

\* The events that the step stores in the queue of t.
Stored(t) ==
    { lt'[t].m_queue[s] : s \in { u \in 0..(logQueueSize - 1) :
                                     lt'[t].m_queue[u].rank > hist[t].pushed } }

\* A flag-setter job for m is scheduled and has not run yet.
FlagsPending(m) ==
    \E w \in Windows : \E k \in 1..Len(win[w].jobs) :
        win[w].jobs[k].kind = "flags" /\ win[w].jobs[k].monitor = m

\* C12 (as claimed): no step stores an event whose type the filter set by
\* the latest setLoggingFilter excludes.
C12_FilterGates ==
    [][ \A t \in Threads : \A event \in Stored(t) :
            TypeBit(event.type) \in am.m_flags ]_vars

\* C12 (amended): the timer tick and logGenericEvent store no event that the
\* filter excludes; a window monitor stores only events that its own copy of
\* the flags allows (the application monitor's flags when the step
\* constructs it); and a registered monitor with no flag-setter job pending
\* holds the filter of the application monitor.
C12_FilterGatesOnceApplied ==
    /\ [](\A m \in MonitorIds :
            (wm[m].state = "alive" /\ HasMonitor(Current, m) /\ ~FlagsPending(m))
                => wm[m].m_flags \cap FilterMask = am.m_flags \cap FilterMask)
    /\ [][ \A t \in Threads : \A event \in Stored(t) :
              IF event.type \in {"Process", "Generic"}
              THEN TypeBit(event.type) \in am.m_flags
              ELSE TypeBit(event.type) \in
                       (IF wm[event.id].state = "alive" THEN wm[event.id].m_flags
                        ELSE am'.m_flags) ]_vars

\* The filter without the frame events has reached a monitor that logs and
\* whose GPU resources are initialised: its next frames are not logged.
C12_Witness ==
    \E m \in MonitorIds :
        /\ wm[m].state = "alive"
        /\ HasMonitor(Current, m)
        /\ ~FlagsPending(m)
        /\ FrameEvent \notin am.m_flags
        /\ wm[m].m_flags \cap {Logging, FrameEvent, GpuResourcesInitialized}
               = {Logging, GpuResourcesInitialized}

\* The windows of the registered monitors, in the order of the registry.
MonitoredWindows(a, monitors) == [k \in 1..Len(a.m_monitors) |-> monitors[a.m_monitors[k]].window]

\* The visible windows, in the order of QGuiApplication::allWindows().
VisibleWindows ==
    LET IsVisible(w) == win[w].visible
    IN SelectSeq([w \in 1..Len(win) |-> w], IsVisible)

\* C13: the registry never holds more than maxMonitors monitors; start()
\* registers a monitor for the first maxMonitors visible windows and none for
\* the others; a window shown while the registry is full gets no monitor and
\* leaves the registry unchanged; removeMonitor called by a monitor takes
\* that monitor out and keeps the others in their order; and for a monitor
\* that is not registered it returns false and changes nothing.
C13_RegistryBounded ==
    /\ [](Len(am.m_monitors) <= maxMonitors)
    /\ [](\A m \in DOMAIN wm :
            ~HasMonitor(Current, m) =>
                (~RemoveMonitorReturned(Current, m) /\ RemoveMonitor(Current, m) = Current))
    /\ [][ /\ (SetOverlay(TRUE) /\ Started \notin am.m_flags) =>
                 MonitoredWindows(am', wm') =
                     SubSeq(VisibleWindows, 1,
                            IF Len(VisibleWindows) < maxMonitors
                            THEN Len(VisibleWindows) ELSE maxMonitors)
           /\ \A w \in DOMAIN win :
                 (ShowWindow(w) /\ Len(am.m_monitors) = maxMonitors) =>
                     (am'.m_monitors = am.m_monitors /\ wm' = wm)
           /\ \A m \in DOMAIN wm :
                 (AboutToStop(m) /\ HasMonitor(Current, m)) =>
                     LET Others(x) == x # m
                     IN /\ am'.m_monitors = SelectSeq(am.m_monitors, Others)
                        /\ Len(am'.m_monitors) = Len(am.m_monitors) - 1 ]_vars

\* The registry is full again after monitors were removed from it and others
\* registered, and a visible window is left without a monitor.
C13_Witness ==
    /\ Len(am.m_monitors) = maxMonitors
    /\ am.nextId > maxMonitors
    /\ am.m_monitors[1] # 1
    /\ \E w \in DOMAIN win :
          /\ win[w].visible
          /\ \A k \in 1..Len(am.m_monitors) : wm[am.m_monitors[k]].window # w

\* C14 (as claimed): no two entries of the registry are monitors of the same
\* window.
C14_OneMonitorPerWindow ==
    \A i, j \in 1..Len(am.m_monitors) :
        i # j => wm[am.m_monitors[i]].window # wm[am.m_monitors[j]].window

\* C15 (as claimed): when stop() returns, the registry is empty and no
\* window monitor is left alive (every monitor was deleted, its destructor
\* has finished), so that none can run afterwards.
C15_StopSynchronous ==
    [][ StopFinish =>
            /\ am.m_monitors = << >>
            /\ \A m \in DOMAIN wm : wm[m].state # "alive" ]_vars

\* The holders of logging thread t: the application monitor while its
\* m_loggingThread is t, and every live window monitor created with t.
Holders(t) ==
    (IF am.m_loggingThread = t THEN 1 ELSE 0)
    + Cardinality({ m \in DOMAIN wm : wm[m].state = "alive" /\ wm[m].m_loggingThread = t })

\* C16: the reference count of a logging thread is the number of its live
\* holders (the application monitor between start() and stop(), and each
\* live window monitor); the destruction of the thread (the join request,
\* directly or through the deferred deletion) is started by the step that
\* releases the last reference and by no other; and no window monitor ever
\* pushes into a destroyed thread object.
C16_RefCountIsHolders ==
    /\ [](fault # "destroyedThread")
    /\ [](\A t \in Threads : lt[t].m_refCount = Holders(t))
    /\ [][ \A t \in Threads :
              (lt[t].state = "alive" /\ lt'[t].state \in {"joining", "deleteLater"})
                  <=> (lt[t].m_refCount > 0 /\ lt'[t].m_refCount = 0) ]_vars
    /\ [][ \A t \in Threads :
              lt'[t].state = "freed" => (lt[t].state \in {"joining", "freed"} /\ lt[t].m_refCount = 0) ]_vars

\* The window monitor was the last holder: stop() released the application
\* monitor's reference first, the destructor of the monitor pushed its
\* Hidden event and released the last one from the rendering thread.
C16_Witness ==
    \E t \in Threads :
        /\ lt[t].state = "deleteLater"
        /\ lt[t].m_refCount = 0
        /\ am.m_loggingThread = NullThread
        /\ \E k \in DOMAIN lt[t].m_queue : lt[t].m_queue[k].info = "Hidden"
        /\ \E m \in DOMAIN wm : wm[m].state = "freed"

\* C17 (as claimed): a window monitor calls render() of its overlay, and
\* finalize() (the step that clears GpuResourcesInitialized), only while
\* the overlay is initialised, that is after an initialize() that succeeded.
C17_RenderOnlyInitialized ==
    [][ \A m \in MonitorIds :
          /\ (AfterRendering(m) /\ OverlayRendered(wm[m].m_flags))
                 => wm[m].overlayInitialized
          /\ ( /\ wm[m].state = "alive"
               /\ GpuResourcesInitialized \in wm[m].m_flags
               /\ GpuResourcesInitialized \notin wm'[m].m_flags )
                 => wm[m].overlayInitialized ]_vars

\* C18: whenever the application thread is back in its event loop after
\* calls of setOverlay, setLogging, setUpdateInterval and closeDown, the
\* process timer is active exactly when monitoring is started and the
\* process update interval is not negative; and processTimeout never runs
\* while monitoring is not started.
C18_TimerIffStarted ==
    /\ [](AppIdle =>
            (am.timerActive <=> (Started \in am.m_flags /\ am.m_updateInterval >= 0)))
    /\ [][ProcessTimeout => Started \in am.m_flags]_vars

\* setUpdateInterval was called, monitoring is started with the timer running
\* at interval 0, and a process sample was pushed to the logging thread.
C18_Witness ==
    /\ AppIdle
    /\ lastOp = "setUpdateInterval"
    /\ am.timerActive
    /\ am.m_updateInterval = 0
    /\ \E t \in Threads : hist[t].pushed > 0

\* The decimal digits of v, most significant first.
RECURSIVE DecimalDigits(_)
DecimalDigits(v) ==
    IF v < 10 THEN << DigitChar(v) >>
    ELSE Append(DecimalDigits(v \div 10), DigitChar(v % 10))

\* A time in nanoseconds as milliseconds with two decimal digits.
TimeText(v) ==
    LET centis == v \div 10000
    IN DecimalDigits(centis \div 100) \o << decimalPoint >>
       \o << DigitChar((centis \div 10) % 10), DigitChar(centis % 10) >>

\* The field of the call held by result, as a sequence of characters.
Field == [k \in 1..result.width |-> result.call.text[k - 1]]

Spaces(n) == [k \in 1..n |-> Blank]

\* The last n characters of a text.
Last(text, n) == SubSeq(text, Len(text) - n + 1, Len(text))

\* The value of a field read as a decimal number after its leading spaces;
\* -1 when it is empty or holds anything but digits.
RECURSIVE ParseDigits(_, _)
ParseDigits(text, acc) ==
    IF text = << >> THEN acc
    ELSE LET hits == { d \in 0..9 : DigitChar(d) = Head(text) }
         IN IF hits = {} THEN 0 - 1
            ELSE ParseDigits(Tail(text), acc * 10 + (CHOOSE d \in hits : TRUE))

RECURSIVE ParseField(_)
ParseField(text) ==
    IF text = << >> THEN 0 - 1
    ELSE IF Head(text) = Blank THEN ParseField(Tail(text))
    ELSE ParseDigits(text, 0)

\* C19: for a value v and a width w of at least the number of decimal digits
\* of v, integerMetricToText leaves in the blank field of width w the digits
\* of v right-aligned after spaces, so that the field read back as a decimal
\* number is v, and returns w minus the number of digits.
C19_IntegerRoundTrip ==
    (lastOp = "integerMetricToText"
        /\ result.width >= Len(DecimalDigits(result.metric)))
    => LET digits == DecimalDigits(result.metric)
       IN /\ result.call.done
          /\ Field = Spaces(result.width - Len(digits)) \o digits
          /\ ParseField(Field) = result.metric
          /\ result.call.ret = result.width - Len(digits)

\* 42 was written in a field wider than its two digits.
C19_Witness ==
    /\ lastOp = "integerMetricToText"
    /\ result.metric = 42
    /\ result.width = 5
    /\ Field = << " ", " ", " ", "4", "2" >>
    /\ result.call.ret = 3

\* C20: for every value and every width w > 0, integerMetricToText and
\* timeMetricToText write only at the indices 0 .. w - 1 of the text and
\* return a value in 0 .. w - 1; when the text of the value is longer than w
\* the field holds its last w characters and the value returned is 0.
C20_WithinBudget ==
    lastOp \in {"integerMetricToText", "timeMetricToText"}
    => LET full == IF lastOp = "integerMetricToText"
                   THEN DecimalDigits(result.metric) ELSE TimeText(result.metric)
       IN /\ result.call.done
          /\ result.call.touched \subseteq 0..(result.width - 1)
          /\ \A k \in TextIndices \ (0..(result.width - 1)) : result.call.text[k] = Blank
          /\ result.call.ret \in 0..(result.width - 1)
          /\ Len(full) > result.width =>
                (result.call.ret = 0 /\ Field = Last(full, result.width))

\* A time of 10.05 ms does not fit a field of three characters: the field
\* holds ".05" and the call returned 0.
C20_Witness ==
    /\ lastOp = "timeMetricToText"
    /\ result.metric = 10050000
    /\ result.width = 3
    /\ Field = << ".", "0", "5" >>
    /\ result.call.ret = 0

\* The characters of a text that are not spaces.
Unspaced(text) == LET NotBlank(c) == c # Blank IN SelectSeq(text, NotBlank)

\* C21 (as claimed): timeMetricToText of 0 in a width of 4 writes "0.00", and
\* of 15000000 ns (15 ms) in a width of 5 writes "1.50".
C21_DurationBoundary ==
    lastOp = "timeMetricToText" =>
        /\ (result.metric = 0 /\ result.width = 4)
              => Field = << "0", ".", "0", "0" >>
        /\ (result.metric = 15000000 /\ result.width = 5)
              => Unspaced(Field) = << "1", ".", "5", "0" >>

\* C21 (amended): timeMetricToText of 0 in a width of 4 writes "0.00", and of
\* 15000000 ns (15 ms) in a width of 5 writes "15.00": the milliseconds with
\* exactly two decimal digits.
C21_DurationBoundaryMillis ==
    lastOp = "timeMetricToText" =>
        /\ (result.metric = 0 /\ result.width = 4)
              => (Field = << "0", ".", "0", "0" >> /\ result.call.ret = 0)
        /\ (result.metric = 15000000 /\ result.width = 5)
              => (Field = << "1", "5", ".", "0", "0" >> /\ result.call.ret = 0)
        /\ Len(TimeText(result.metric)) <= result.width
              => Unspaced(Field) = TimeText(result.metric)

\* 15 ms were formatted in a field of five characters.
C21_Witness ==
    /\ lastOp = "timeMetricToText"
    /\ result.metric = 15000000
    /\ result.width = 5
    /\ result.call.done
    /\ result.call.touched = 0..4

\* The text parseText leaves in m_parsedText: the bytes before the first '\0'.
ParsedString(out) ==
    LET nuls == { k \in 1..Len(out) : out[k] = Nul }
    IN IF nuls = {} THEN out
       ELSE SubSeq(out, 1, (CHOOSE k \in nuls : \A j \in nuls : k <= j) - 1)

\* The names the templates place after a percent sign.
TemplateNames == { metricInfo[1].name, metricInfo[7].name, keywordInfo[2], keywordInfo[5] }

\* Every slot parseText registered, of any type.
Slots(parse) ==
    UNION { { parse.m_metrics[t][n] : n \in 1..Len(parse.m_metrics[t]) } : t \in MetricTypes }

C23_SixteenSlots ==
    lastOp = "parseText" =>
        /\ \A t \in MetricTypes : Len(result.parse.m_metrics[t]) <= maxMetricsPerType
        /\ result.text = FrameRun(maxMetricsPerType + 1) =>
              LET frame == result.parse.m_metrics["Frame"]
                  last == metricInfo[7 + ((maxMetricsPerType + 1) % 6)]
              IN /\ Len(frame) = maxMetricsPerType
                 /\ \A n \in 1..maxMetricsPerType :
                       frame[n] = [ index |-> 7 + (n % 6),
                                    textIndex |-> (n - 1) * 7, width |-> 7 ]
                 /\ ParsedString(result.parse.out) =
                       [k \in 1..(maxMetricsPerType * 7) |-> "?"] \o << "%" >> \o last.name

\* The placeholders of the templates that name no keyword and no metric.
Unmatched ==
    { << "%", "f", "o", "o" >>, << "%", "5", "f", "o", "o" >>,
      << "%", "4", "0", "f", "o", "o" >>, << "%", "a" >> }

\* C27: a template that is a '%' followed by what is no name of a keyword or
\* of a metric, with or without digits of a width, is parsed to itself, the
\* '%' included, and no slot is registered.
C27_UnmatchedUnchanged ==
    (lastOp = "parseText" /\ result.text \in Unmatched) =>
        /\ ParsedString(result.parse.out) = result.text
        /\ Slots(result.parse) = {}

\* The index of the first '\0' of m_parsedText, or -1.
Terminator(out) ==
    LET nuls == { k \in 1..Len(out) : out[k] = Nul }
    IN IF nuls = {} THEN 0 - 1 ELSE (CHOOSE k \in nuls : \A j \in nuls : k <= j) - 1

\* C28: whatever the template, parseText stores no byte past the 1024 of
\* m_parsedText, the text ends with a '\0' at an index of at most 1023, and
\* every slot is 1 to 32 wide and lies before that '\0'.
C28_ParsedTextBounded ==
    lastOp = "parseText" =>
        /\ ~result.parse.overflow
        /\ Len(result.parse.out) <= maxParsedTextSize
        /\ Terminator(result.parse.out) >= 0
        /\ Terminator(result.parse.out) <= maxParsedTextSize - 1
        /\ \A slot \in Slots(result.parse) :
              /\ slot.width >= 1
              /\ slot.width <= maxMetricWidth
              /\ slot.textIndex >= 0
              /\ slot.textIndex + slot.width <= Terminator(result.parse.out)

\* The text "F:%5frameNumber".
FrameNumberText == << "F", ":", "%", "5" >> \o metricInfo[7].name

\* C24: with the text "F:%5frameNumber" every render shows "F:" and the
\* number of the frame right-aligned in five columns, "F:    7" for frame 7
\* and "F:  107" for frame 107, and the slot stays at offset 2 with width 5.
C24_FrameNumberShown ==
    (lastOp = "render" /\ result.overlay.m_text = FrameNumberText) =>
        LET shown == result.overlay.shown
            digits == DecimalDigits(result.frame.number)
        IN /\ result.overlay.parse.m_metrics["Frame"] =
                  << [index |-> 7, textIndex |-> 2, width |-> 5] >>
           /\ shown = << "F", ":" >> \o Last(Spaces(5) \o digits, 5)
           /\ result.frame.number = 7 => shown = << "F", ":", " ", " ", " ", " ", "7" >>
           /\ result.frame.number = 107 => shown = << "F", ":", " ", " ", "1", "0", "7" >>

\* Frame 107 was rendered where frame 7 was shown.
C24_Witness ==
    /\ lastOp = "render"
    /\ result.overlay.m_text = FrameNumberText
    /\ result.before = << "F", ":", " ", " ", " ", " ", "7" >>
    /\ result.frame.number = 107
    /\ result.overlay.shown = << "F", ":", " ", " ", "1", "0", "7" >>

\* The text "%wwindowSize", for a width w.
WindowSizeText(w) == << "%" >> \o WidthDigits(w) \o metricInfo[6].name

\* C25: once updateWindowMetrics() has written it (the frame is not the 0
\* by 0 the overlay is constructed with), the slot of windowSize, w columns
\* wide, shows the digits of the
\* height at its right end (the last w of them when they are more); with r
\* columns left, r >= 2 puts 'x' and the digits of the width in the r - 1
\* columns before it, r = 1 puts 'x' alone, r = 0 nothing; only the columns
\* 0 .. w - 1 of the scratch text are written.
C25_WindowSizeDegrades ==
    \A w \in 1..MaxSlotWidth :
        (lastOp = "render" /\ result.overlay.m_text = WindowSizeText(w)
             /\ result.frameSize # [width |-> 0, height |-> 0]) =>
            LET height == DecimalDigits(result.frameSize.height)
                width == DecimalDigits(result.frameSize.width)
                r == w - Len(height)
                shown == result.overlay.shown
            IN /\ result.overlay.parse.m_metrics["Window"] =
                      << [index |-> 6, textIndex |-> 0, width |-> w] >>
               /\ r <= 0 => shown = Last(height, w)
               /\ r = 1 => shown = << "x" >> \o height
               /\ r >= 2 => shown = Last(Spaces(r - 1) \o width, r - 1) \o << "x" >> \o height
               /\ (w = 4 /\ result.frameSize = [width |-> 1920, height |-> 1080])
                     => shown = << "1", "0", "8", "0" >>
               /\ \A t \in result.overlay.touched : t[1] = 1 /\ t[2] >= 0 /\ t[2] < w

\* A frame of 1920 by 1080 was rendered in a slot of five columns: the
\* separator is there, the width is not.
C25_Witness ==
    /\ lastOp = "render"
    /\ result.overlay.m_text = WindowSizeText(5)
    /\ result.frameSize = [width |-> 1920, height |-> 1080]
    /\ result.overlay.shown = << "x", "1", "0", "8", "0" >>

\* The text "%wgpuTime", for a width w.
GpuTimeText(w) == << "%" >> \o WidthDigits(w) \o metricInfo[11].name

\* C26: without the GPU timer the gpuTime of the frame rendered is 0, and a
\* slot of gpuTime, w columns wide, rendered from a gpuTime that is not
\* positive shows "N/A" after w - 3 spaces, or the last w characters of
\* "N/A" when w is less than 3; only the columns of the slot are written.
C26_GpuTimeNotAvailable ==
    lastOp = "render" =>
        /\ ~result.gpuTimerAvailable => result.frame.gpuTime = 0
        /\ \A w \in 1..MaxSlotWidth :
              (result.overlay.m_text = GpuTimeText(w) /\ result.frame.gpuTime <= 0) =>
                  /\ result.overlay.shown = Last(Spaces(w) \o na, w)
                  /\ \A t \in result.overlay.touched : t[1] = 1 /\ t[2] >= 0 /\ t[2] < w

\* Without the GPU timer a slot of two columns shows "/A".
C26_Witness ==
    /\ lastOp = "render"
    /\ ~result.gpuTimerAvailable
    /\ result.overlay.m_text = GpuTimeText(2)
    /\ result.frame.gpuTime = 0
    /\ result.overlay.shown = << "/", "A" >>

FramesPushed(r) == SelectSeq(r.pushed, LAMBDA e : e.type = "Frame")

\* C30: every Frame event pushed has a number of at least 1, of two Frame
\* events pushed after the same initialization the later has the greater
\* number, windowAfterRendering() adds one to the number when the
\* resources are initialized, and a windowFrameSwapped() that finds them
\* uninitialized pushes nothing.
C30_FrameNumbersIncrease ==
    /\ [](\A k \in 1..Len(FramesPushed(result)) :
             /\ FramesPushed(result)[k].number >= 1
             /\ \A j \in 1..(k - 1) :
                   FramesPushed(result)[j].inits = FramesPushed(result)[k].inits
                       => FramesPushed(result)[j].number < FramesPushed(result)[k].number)
    /\ [][(lastOp' = "windowAfterRendering" /\ Initialized(result))
             => result'.number = result.number + 1]_vars
    /\ [][(lastOp' = "windowFrameSwapped" /\ ~Initialized(result))
             => result'.pushed = result.pushed]_vars

\* A value right-aligned in w columns.
Aligned(text, w) == Last(Spaces(w) \o text, w)

\* What the overlay of EachTypeText has to show for a sample of the process,
\* a window id, a frame size and a frame.
EachTypeShown(process, windowId, frameSize, frame) ==
    << "c" >> \o Aligned(DecimalDigits(process.cpuUsage), 3)
    \o << "w" >> \o Aligned(DecimalDigits(windowId), 2)
    \o << "s" >> \o Aligned(DecimalDigits(frameSize.width) \o << "x" >>
                                \o DecimalDigits(frameSize.height), 9)
    \o << "t" >> \o Aligned(TimeText(frame.syncTime + frame.renderTime + frame.gpuTime), 7)

\* C31: after every render(frameEvent, frameSize), whatever setProcessEvent
\* and render calls came before, the process slot shows the sample of the
\* latest setProcessEvent (zeros when there was none), the frame slot the
\* values of frameEvent, the window slots the window id and frameSize, and
\* neither DirtyText nor DirtyProcessEvent is set.
C31_RenderShowsLatest ==
    (lastOp = "render" /\ result.overlay.m_text = EachTypeText) =>
        /\ result.overlay.shown =
               EachTypeShown(result.process, 1, result.frameSize, result.frame)
        /\ result.overlay.m_flags = {}

\* ---- properties of the teardown of a window monitor ----

\* C32: a window monitor is destroyed at most once, by the handler whose
\* removeMonitor() took it out of the registry (the deletion job of stop()
\* or windowSceneGraphAboutToStop()), and it is out of the registry once it
\* is destroyed; a handler that finds the monitor gone from the registry
\* does not delete it.
C32_DestroyedOnce ==
    /\ result.deletes <= 1
    /\ (result.wm[1].state = "freed") = (result.deletes = 1)
    /\ result.wm[1].state = "freed" => ~HasMonitor(result, 1)
    /\ result.deletedBy \subseteq {result.removedBy}
    /\ result.deletedBy \cap result.missed = {}

\* The deletion job of stop() has found the monitor removed by
\* windowSceneGraphAboutToStop(), which has deleted it.
C32_Witness ==
    /\ lastOp = "WindowMonitorDeleter"
    /\ result.pc["rendering"] = "idle"
    /\ "WindowMonitorDeleter" \in result.missed
    /\ result.deletedBy = {"windowSceneGraphAboutToStop"}

C38_NoUseAfterDestruction == result.touched = {}

\* C40: the queue mutex, the registry mutex and the overlay lock of a
\* monitor are never taken in a cyclic order (no set of locks in which
\* each one was held while another one of the set was taken), and no set
\* of threads is reachable in which each thread waits for another thread
\* of the set (for a lock it holds, for room in the queue, or for the
\* registry to empty).
C40_NoDeadlock ==
    /\ \A S \in SUBSET Locks :
          S # {} => \E a \in S : \A b \in S : << a, b >> \notin result.order
    /\ \A S \in SUBSET TeardownThreads :
          S # {} => \E t \in S : WaitsFor(result, t) \cap S = {}

\* The thread of the application has taken the queue mutex and the overlay
\* lock with the registry mutex held, and now waits, holding the registry
\* mutex, for the overlay lock that the rendering thread holds.
C40_Witness ==
    /\ result.order = { << "registry", "queue" >>, << "registry", "overlay" >> }
    /\ result.holder["registry"] = "application"
    /\ result.holder["overlay"] = "rendering"
    /\ WaitsFor(result, "application") = {"rendering"}

\* ---- properties of start() and stop() ----

\* The assertions at the head of start() and of stop() hold when the
\* toggle of flag to on calls one of them; stops tells that turning the
\* flag off calls stop().
EntryAsserted(flag, on, stops) ==
    IF on
    THEN EnableStarts(am.m_flags \cup {flag}) =>
             (Started \notin am.m_flags /\ am.m_loggingThread = NullThread)
    ELSE stops => Started \in am.m_flags

\* C34: whatever the sequence of setOverlay, setLogging and closeDown,
\* start() is entered only with Started clear and no logging thread, stop()
\* only with Started set, and monitoring is not started once closeDown has
\* been called.
C34_StartStopAsserted ==
    [][ /\ \A on \in BOOLEAN :
             /\ (SetOverlay(on) /\ (Overlay \in am.m_flags) # on) =>
                    EntryAsserted(Overlay, on, OverlayOffStops(am.m_flags \ {Overlay}))
             /\ (SetLogging(on) /\ (Logging \in am.m_flags) # on) =>
                    EntryAsserted(Logging, on, LoggingOffStops(am.m_flags \ {Logging}))
        /\ ClosingDown \in am.m_flags =>
              (Started \in am'.m_flags => Started \in am.m_flags) ]_vars

\* C35: whenever a call that uses the logging thread can be made (the
\* thread of the application is in its event loop, or in the event loop
\* that stop() runs while it waits), the pointer to the logging thread is
\* not null if the Logging flag is set (logGenericEvent) or the Started
\* flag is set (installLogger, removeLogger, processTimeout).
C35_LoggingThreadExists ==
    (fault = "none" /\ app.pc \in {"idle", "stop_wait"}) =>
        (Logging \in am.m_flags \/ Started \in am.m_flags =>
            am.m_loggingThread # NullThread)

\* ---- properties of the loggers of a started monitor ----

\* C36: the logging thread never calls log() of a logger that
\* removeLogger(l, true) or clearLoggers(true) has deleted.
C36_DeletedNeverInvoked ==
    [][ \A t \in Threads :
          RunLog(t) =>
              RunLogTarget(run[t].loggers, lt[t].m_loggers, run[t].i) \notin freed ]_vars

\* C37: between two calls, while monitoring is started, the loggers of the
\* logging thread are the installed loggers of the application monitor.
C37_ThreadHoldsInstalled ==
    (AppIdle /\ Started \in am.m_flags /\ am.m_loggingThread # NullThread) =>
        TableSeq(lt[am.m_loggingThread].m_loggers, lt[am.m_loggingThread].m_loggerCount)
            = InstalledLoggers(am)

\* ---- the order of the events of a window ----

\* The monitor logs window events.
WindowEventsLogged ==
    Logging \in result.wm[1].m_flags /\ WindowEvent \in result.wm[1].m_flags

\* C39: a monitor that logs window events pushes nothing before Shown,
\* which its constructor pushes, and its destructor pushes Hidden; Shown is
\* pushed once and Hidden is the last event pushed.
C39_ShownFirstHiddenLast ==
    /\ [][(WindowEventsLogged /\ ~result.constructed) =>
             \/ result'.pushed = result.pushed
             \/ result'.pushed = << WindowPushed("Shown") >>]_vars
    /\ [][(WindowEventsLogged /\ result.wm[1].state = "alive"
                              /\ result'.wm[1].state = "freed") =>
             result'.pushed = Append(result.pushed, WindowPushed("Hidden"))]_vars
    /\ [](\A k \in 1..Len(result.pushed) :
             /\ result.pushed[k] = WindowPushed("Shown") =>
                    \A j \in 1..Len(result.pushed) :
                        result.pushed[j] = WindowPushed("Shown") => j = k
             /\ result.pushed[k] = WindowPushed("Hidden") =>
                    (k = Len(result.pushed) /\ result.wm[1].state = "freed"))

====
